---- MODULE Spec2Model ----
(***************************************************************************)
(* Fantasy-baseball backend: roster store, standard-gain scorer and the    *)
(* roster-assignment optimizer of src/app/api/routes.py.                   *)
(*                                                                         *)
(* The SQLite tables are the state.  Python floats are modelled as exact   *)
(* rationals <<n, d>> (d > 0, lowest terms); SQL NULL in a REAL column is  *)
(* the pair <<0, 0>>, SQL NULL in an id column is 0 (ids start at 1) and   *)
(* SQL NULL in an INTEGER stat column is -1.  A Position string such as    *)
(* "2B,SS" is the sequence of its comma-separated tokens <<"2B", "SS">>.   *)
(***************************************************************************)
EXTENDS Integers, Sequences, FiniteSets, TLC

\* ------------------------------------------------------------------ bounds
\* Number of state-changing requests in one behaviour.
MaxOps == 2

\* ------------------------------------------------------- exact arithmetic
Abs(x) == IF x < 0 THEN -x ELSE x

RECURSIVE GCD(_, _)
GCD(a, b) == IF b = 0 THEN a ELSE GCD(b, a % b)

\* The rational n/d in lowest terms with a positive denominator.
Rat(n, d) ==
    LET g == GCD(Abs(n), Abs(d))
        s == IF d < 0 THEN -1 ELSE 1
    IN  <<(s * n) \div g, (s * d) \div g>>

FromInt(n) == <<n, 1>>
\* Sums and products cancel common factors before multiplying, and the order
\* compares integer parts first, so that intermediate values stay small.
RAdd(x, y) ==
    LET g == GCD(x[2], y[2])
    IN  Rat(x[1] * (y[2] \div g) + y[1] * (x[2] \div g), (x[2] \div g) * y[2])
RSub(x, y) == RAdd(x, <<-y[1], y[2]>>)
RMul(x, y) ==
    LET g1 == GCD(Abs(x[1]), y[2])
        g2 == GCD(Abs(y[1]), x[2])
    IN  Rat((x[1] \div g1) * (y[1] \div g2), (x[2] \div g2) * (y[2] \div g1))
RDiv(x, y) == RMul(x, IF y[1] < 0 THEN <<-y[2], -y[1]>> ELSE <<y[2], y[1]>>)

\* a/b <= c/d for b > 0 and d > 0.
RECURSIVE FracLe(_, _, _, _)
FracLe(a, b, c, d) ==
    IF a \div b # c \div d THEN a \div b < c \div d
    ELSE IF a % b = 0 THEN TRUE
    ELSE IF c % d = 0 THEN FALSE
    ELSE FracLe(d, c % d, b, a % b)

RLe(x, y) == FracLe(x[1], x[2], y[1], y[2])
RLt(x, y) == ~RLe(y, x)
RMaxFirst(x, y) == x
RMax(x, y) == IF RLt(x, y) THEN y ELSE x
Zero == FromInt(0)

\* Sum of f[e] over the finite set S.
RECURSIVE RSum(_, _)
RSum(f, S) ==
    IF S = {} THEN Zero
    ELSE LET e == CHOOSE x \in S : TRUE IN RAdd(f[e], RSum(f, S \ {e}))

RECURSIVE ISum(_, _)
ISum(f, S) ==
    IF S = {} THEN 0
    ELSE LET e == CHOOSE x \in S : TRUE IN f[e] + ISum(f, S \ {e})

\* ------------------------------------------------------------ null values
NULL == 0
NullReal == <<0, 0>>
None == -1
\* `x if x is not None else 0` on an INTEGER column.
OrZero(x) == IF x = None THEN 0 ELSE x
\* `x if x is not None else 0` on a REAL column.
OrZeroReal(x) == IF x = NullReal THEN Zero ELSE x

\* --------------------------------------------------------- static tables
\* Roster columns of TeamHitters / TeamPitchers.  The modelled league keeps
\* one slot of each eligibility kind: a single-position slot, a small-set
\* slot, a catch-all slot and a bench slot.
HITTER_POSITIONS == {"ShortStop", "MiddleInfielder", "Utility", "Bench1"}
PITCHER_POSITIONS == {"Pitcher1", "Bench1"}

AnyPosition == {"C", "1B", "2B", "SS", "3B", "OF", "DH"}

POSITION_MAPPING(position) ==
    CASE position = "C" -> {"C"}
      [] position = "FirstBase" -> {"1B"}
      [] position = "SecondBase" -> {"2B"}
      [] position = "ShortStop" -> {"SS"}
      [] position = "ThirdBase" -> {"3B"}
      [] position = "MiddleInfielder" -> {"2B", "SS"}
      [] position = "CornerInfielder" -> {"1B", "3B"}
      [] position \in {"Outfield1", "Outfield2", "Outfield3", "Outfield4", "Outfield5"} -> {"OF"}
      [] position \in {"Utility", "Bench1", "Bench2", "Bench3"} -> AnyPosition
      [] OTHER -> {}

\* position.startswith('Bench') and int(position[5:])
IsBench(position) == position \in {"Bench1", "Bench2", "Bench3"}
BenchIndex(position) ==
    CASE position = "Bench1" -> 1
      [] position = "Bench2" -> 2
      [] position = "Bench3" -> 3
      [] OTHER -> 0

TOTAL_BENCH_POSITIONS == 3

\* Rows of the Teams table, and a team id no row has.
Teams == {1, 2}
NoSuchTeam == 3

\* Rows of the Hitters table: the columns no request writes.
HitterRows ==
    << [Position |-> <<"SS">>, AdjustedSalary |-> 3,
        R |-> 6, HR |-> 2, RBI |-> 5, SB |-> 1, AB |-> 10, H |-> 3],
       [Position |-> <<"2B", "SS">>, AdjustedSalary |-> 1,
        R |-> 8, HR |-> 3, RBI |-> 7, SB |-> 2, AB |-> 10, H |-> 4],
       [Position |-> <<"SS">>, AdjustedSalary |-> 1,
        R |-> 2, HR |-> 1, RBI |-> 2, SB |-> None, AB |-> 0, H |-> 0],
       [Position |-> <<"2B">>, AdjustedSalary |-> 2,
        R |-> 4, HR |-> 1, RBI |-> 4, SB |-> 3, AB |-> 5, H |-> 1] >>
HitterIds == DOMAIN HitterRows

\* Rows of the Pitchers table: the columns no request writes.
PitcherRows ==
    << [Position |-> <<"SP">>, AdjustedSalary |-> 2,
        W |-> 3, SO |-> 10, SVH |-> 0, IP |-> 10, ERA |-> <<3, 1>>, WHIP |-> <<1, 1>>],
       [Position |-> <<"RP">>, AdjustedSalary |-> 1,
        W |-> 1, SO |-> 5, SVH |-> 4, IP |-> 5, ERA |-> <<5, 1>>, WHIP |-> <<3, 2>>] >>
PitcherIds == DOMAIN PitcherRows

\* Rows of the Standings table (threshold models), and a model id no row has.
Standings ==
    << [R |-> 10, HR |-> 4, RBI |-> 10, SB |-> 2, AVG |-> <<3, 10>>,
        W |-> 4, K |-> 10, ERA |-> <<3, 1>>, WHIP |-> <<1, 1>>, SVH |-> 2],
       [R |-> 20, HR |-> 2, RBI |-> 5, SB |-> 4, AVG |-> <<1, 4>>,
        W |-> 2, K |-> 20, ERA |-> <<4, 1>>, WHIP |-> <<6, 5>>, SVH |-> 4] >>
ModelIds == DOMAIN Standings

\* Budgets a request may carry.
Budgets == {4, 9}
\* Bench quotas a request may carry.
BenchQuotas == {0, 3}

\* ------------------------------------------------------------------ state
VARIABLES
    TeamHitters,    \* [Teams -> [HITTER_POSITIONS -> hitter id or NULL]]
    TeamPitchers,   \* [Teams -> [PITCHER_POSITIONS -> pitcher id or NULL]]
    hitterRosters,  \* teams that have a TeamHitters row
    pitcherRosters, \* teams that have a TeamPitchers row
    Hitters,        \* [HitterIds -> [HittingTeamId, Status, SGCalc]]
    Pitchers,       \* [PitcherIds -> [PitchingTeamId, Status, SGCalc]]
    response,       \* the last response sent
    lp,             \* the last linear program the optimizer built
    ops,            \* requests served so far
    req,            \* the scoring requests being served step by step
    writer,         \* per player row, the request that last wrote SGCalc
    call            \* a call of one scoring function: its arguments and result

vars == <<TeamHitters, TeamPitchers, hitterRosters, pitcherRosters,
          Hitters, Pitchers, response, lp, ops, req, writer, call>>

\* Scoring requests that may be in flight together; request r is for team r.
Requests == {1, 2}
Idle == [pc |-> "idle"]

NoResponse == [route |-> "none", code |-> 0]
NoLp == [built |-> FALSE]
NoCall == [fn |-> "none", state |-> "none"]

\* The database after load, before any request.
Tables ==
    /\ TeamHitters = [t \in Teams |-> [p \in HITTER_POSITIONS |-> NULL]]
    /\ TeamPitchers = [t \in Teams |-> [p \in PITCHER_POSITIONS |-> NULL]]
    /\ hitterRosters = {}
    /\ pitcherRosters = {}
    /\ Hitters = [h \in HitterIds |->
                    [HittingTeamId |-> NULL, Status |-> "FA", SGCalc |-> NullReal]]
    /\ Pitchers = [p \in PitcherIds |->
                    [PitchingTeamId |-> NULL, Status |-> "FA", SGCalc |-> NullReal]]
    /\ response = NoResponse
    /\ lp = NoLp
    /\ ops = 0
    /\ req = [r \in Requests |-> Idle]
    /\ writer = [hitting |-> [h \in HitterIds |-> 0], pitching |-> [p \in PitcherIds |-> 0]]

Init ==
    /\ Tables
    /\ call = NoCall

\* ------------------------------------------------------- roster requests
NoSuchPlayer == 9
PlayerTypes == {"hitter", "pitcher", "coach"}
PlayerIdInputs == {NULL} \cup HitterIds \cup PitcherIds \cup {NoSuchPlayer}

\* player['Position'].split(',') with each token stripped; [] for an empty
\* or NULL Position.
SplitPositions(position) == {position[i] : i \in DOMAIN position}

\* The eligibility loop of update_team_roster: some token of the player's
\* Position is among the positions the roster slot accepts.
IsEligibleMissingCheck(player_id, position) == TRUE
IsEligible(player_id, position) ==
    \/ position \in {"Utility", "Bench1", "Bench2", "Bench3"}
    \/ SplitPositions(HitterRows[player_id].Position) \cap POSITION_MAPPING(position) # {}

\* A required field the request body does not carry.
Missing == "<missing>"

\* The status code update_team_roster answers with before it writes
\* anything; 200 when the request passes every check.
RosterCheck(team_id, player_type, position, player_id) ==
    IF Missing \in {player_type, position} THEN 400
    ELSE IF player_type \notin {"hitter", "pitcher"} THEN 400
    ELSE IF position \notin (IF player_type = "hitter" THEN HITTER_POSITIONS
                                                      ELSE PITCHER_POSITIONS) THEN 400
    ELSE IF team_id \notin Teams THEN 404
    ELSE IF player_id = NULL THEN 200
    ELSE IF player_type = "hitter" THEN
        IF player_id \notin HitterIds THEN 404
        ELSE IF ~IsEligible(player_id, position) THEN 400
        ELSE 200
    ELSE IF player_id \notin PitcherIds THEN 404
    ELSE 200

\* The UPDATE / INSERT statements on TeamHitters and Hitters.
UpdateHitterRoster(team_id, position, player_id) ==
    /\ hitterRosters' = hitterRosters \cup {team_id}
    /\ TeamHitters' = [TeamHitters EXCEPT ![team_id][position] = player_id]
    /\ IF player_id = NULL
       THEN LET previous_player_id == TeamHitters[team_id][position] IN
            IF team_id \in hitterRosters /\ previous_player_id # NULL
            THEN Hitters' = [Hitters EXCEPT ![previous_player_id].HittingTeamId = NULL]
            ELSE UNCHANGED Hitters
       ELSE Hitters' = [Hitters EXCEPT ![player_id].HittingTeamId = team_id]
    /\ UNCHANGED <<TeamPitchers, pitcherRosters, Pitchers>>

\* The UPDATE / INSERT statements on TeamPitchers and Pitchers.
UpdatePitcherRoster(team_id, position, player_id) ==
    /\ pitcherRosters' = pitcherRosters \cup {team_id}
    /\ TeamPitchers' = [TeamPitchers EXCEPT ![team_id][position] = player_id]
    /\ IF player_id = NULL
       THEN LET previous_player_id == TeamPitchers[team_id][position] IN
            IF team_id \in pitcherRosters /\ previous_player_id # NULL
            THEN Pitchers' = [Pitchers EXCEPT ![previous_player_id].PitchingTeamId = NULL]
            ELSE UNCHANGED Pitchers
       ELSE Pitchers' = [Pitchers EXCEPT ![player_id].PitchingTeamId = team_id]
    /\ UNCHANGED <<TeamHitters, hitterRosters, Hitters>>

\* The eligibility check placed after the slot is written: a hitter refused
\* for the slot is in the slot all the same.
RejectedAfterWrite(team_id, player_type, position, player_id) ==
    IF /\ player_type = "hitter" /\ position \in HITTER_POSITIONS
       /\ team_id \in Teams /\ player_id \in HitterIds
    THEN UpdateHitterRoster(team_id, position, player_id)
    ELSE UNCHANGED <<TeamHitters, TeamPitchers, hitterRosters, pitcherRosters,
                     Hitters, Pitchers>>

\* The early returns of update_team_roster: each one precedes the first
\* UPDATE / INSERT, so the tables are as they were.
Rejected(team_id, player_type, position, player_id) ==
    UNCHANGED <<TeamHitters, TeamPitchers, hitterRosters, pitcherRosters,
                Hitters, Pitchers>>

\* POST /teams/<team_id>/roster/update
update_team_roster ==
    /\ ops < MaxOps
    /\ ops' = ops + 1
    /\ UNCHANGED <<req, writer, call>>
    /\ UNCHANGED lp
    /\ \E team_id \in Teams \cup {NoSuchTeam}, player_type \in PlayerTypes \cup {Missing},
          position \in HITTER_POSITIONS \cup PITCHER_POSITIONS \cup {Missing},
          player_id \in PlayerIdInputs :
        LET code == RosterCheck(team_id, player_type, position, player_id) IN
        /\ response' = [route |-> "roster", code |-> code]
        /\ IF code # 200
           THEN Rejected(team_id, player_type, position, player_id)
           ELSE IF player_type = "hitter"
                THEN UpdateHitterRoster(team_id, position, player_id)
                ELSE UpdatePitcherRoster(team_id, position, player_id)

\* DELETE /players/<player_type>/<player_id>
remove_player ==
    /\ ops < MaxOps
    /\ ops' = ops + 1
    /\ UNCHANGED <<req, writer, call>>
    /\ UNCHANGED <<TeamHitters, TeamPitchers, hitterRosters, pitcherRosters, lp>>
    /\ \E player_type \in PlayerTypes, player_id \in PlayerIdInputs \ {NULL} :
        IF player_type \notin {"hitter", "pitcher"}
        THEN /\ response' = [route |-> "remove", code |-> 400]
             /\ UNCHANGED <<Hitters, Pitchers>>
        ELSE /\ response' = [route |-> "remove", code |-> 200]
             /\ IF player_type = "hitter"
                THEN /\ Hitters' = [h \in HitterIds |->
                             IF h = player_id THEN [Hitters[h] EXCEPT !.Status = "NA"]
                             ELSE Hitters[h]]
                     /\ UNCHANGED Pitchers
                ELSE /\ Pitchers' = [p \in PitcherIds |->
                             IF p = player_id THEN [Pitchers[p] EXCEPT !.Status = "NA"]
                             ELSE Pitchers[p]]
                     /\ UNCHANGED Hitters

\* PUT /players/<player_type>/<player_id>/set-free-agent
set_player_as_free_agent ==
    /\ ops < MaxOps
    /\ ops' = ops + 1
    /\ UNCHANGED <<req, writer, call>>
    /\ UNCHANGED <<TeamHitters, TeamPitchers, hitterRosters, pitcherRosters, lp>>
    /\ \E player_type \in PlayerTypes, player_id \in PlayerIdInputs \ {NULL} :
        IF player_type \notin {"hitter", "pitcher"}
        THEN /\ response' = [route |-> "free-agent", code |-> 400]
             /\ UNCHANGED <<Hitters, Pitchers>>
        ELSE /\ response' = [route |-> "free-agent", code |-> 200]
             /\ IF player_type = "hitter"
                THEN /\ Hitters' = [h \in HitterIds |->
                             IF h = player_id
                             THEN [Hitters[h] EXCEPT !.Status = "FA", !.HittingTeamId = NULL]
                             ELSE Hitters[h]]
                     /\ UNCHANGED Pitchers
                ELSE /\ Pitchers' = [p \in PitcherIds |->
                             IF p = player_id
                             THEN [Pitchers[p] EXCEPT !.Status = "FA", !.PitchingTeamId = NULL]
                             ELSE Pitchers[p]]
                     /\ UNCHANGED Hitters

\* ---------------------------------------------- aggregate stats and gaps
HittersOf(team_id) == {h \in HitterIds : Hitters[h].HittingTeamId = team_id}
PitchersOf(team_id) == {p \in PitcherIds : Pitchers[p].PitchingTeamId = team_id}

\* Sum of a nullable integer column over the rows of a result set (a function
\* from row numbers or ids to rows).
ColumnSum(rows, column) ==
    ISum([i \in DOMAIN rows |-> OrZero(rows[i][column])], DOMAIN rows)

\* team_stats["AVG"] of lines 1377-1393.
TeamAVGSimpleMean(hitters) ==
    LET batting == {i \in DOMAIN hitters : OrZero(hitters[i].AB) > 0}
    IN  IF batting = {} THEN Zero
        ELSE RDiv(RSum([i \in batting |-> Rat(OrZero(hitters[i].H), hitters[i].AB)], batting),
                  FromInt(Cardinality(batting)))
TeamAVG(hitters) ==
    LET total_ab == ColumnSum(hitters, "AB")
        total_hits == ColumnSum(hitters, "H")
    IN  IF total_ab > 0 THEN Rat(total_hits, total_ab) ELSE Zero

\* team_stats["ERA"] of lines 1401-1426.
TeamERASimpleMean(pitchers) ==
    LET pitching == {i \in DOMAIN pitchers : OrZero(pitchers[i].IP) > 0}
    IN  IF pitching = {} THEN Zero
        ELSE RDiv(RSum([i \in pitching |-> OrZeroReal(pitchers[i].ERA)], pitching),
                  FromInt(Cardinality(pitching)))
TeamERA(pitchers) ==
    LET total_innings == ColumnSum(pitchers, "IP")
        total_earned_runs ==
            RSum([i \in DOMAIN pitchers |->
                    RDiv(RMul(OrZeroReal(pitchers[i].ERA),
                              FromInt(OrZero(pitchers[i].IP))), FromInt(9))], DOMAIN pitchers)
    IN  IF total_innings > 0
        THEN RDiv(RMul(FromInt(9), total_earned_runs), FromInt(total_innings))
        ELSE Zero

\* team_stats["WHIP"] of lines 1401-1427.
TeamWHIP(pitchers) ==
    LET total_innings == ColumnSum(pitchers, "IP")
        total_whip_product ==
            RSum([i \in DOMAIN pitchers |->
                    RMul(OrZeroReal(pitchers[i].WHIP),
                         FromInt(OrZero(pitchers[i].IP)))], DOMAIN pitchers)
    IN  IF total_innings > 0
        THEN RDiv(total_whip_product, FromInt(total_innings))
        ELSE Zero

\* round(x, digits) with scale = 10^digits, for x >= 0: to the nearest
\* multiple of 1/scale, a tie to the even one.
RoundTo(x, scale) ==
    LET n == x[1] * scale
        q == n \div x[2]
        r == n % x[2]
    IN  Rat(IF 2 * r < x[2] THEN q
            ELSE IF 2 * r > x[2] THEN q + 1
            ELSE IF q % 2 = 0 THEN q ELSE q + 1, scale)

\* total / valid_count over the rows whose rate column is not NULL, 0.0 when
\* there is none.
ColumnMean(rows, column) ==
    LET valid == {i \in DOMAIN rows : rows[i][column] # NullReal}
    IN  IF valid = {} THEN Zero
        ELSE RDiv(RSum([i \in valid |-> rows[i][column]], valid), FromInt(Cardinality(valid)))

\* The 'stats' of GET /teams/<team_id>/stats/hitting for the team's rows.
get_team_hitting_stats(hitters) ==
    [R |-> FromInt(ColumnSum(hitters, "R")),
     HR |-> FromInt(ColumnSum(hitters, "HR")),
     RBI |-> FromInt(ColumnSum(hitters, "RBI")),
     SB |-> FromInt(ColumnSum(hitters, "SB")),
     AVG |-> RoundTo(ColumnMean(hitters, "AVG"), 1000)]

\* The 'stats' of GET /teams/<team_id>/stats/pitching for the team's rows.
get_team_pitching_stats(pitchers) ==
    [W |-> FromInt(ColumnSum(pitchers, "W")),
     K |-> FromInt(ColumnSum(pitchers, "SO")),
     SVH |-> FromInt(ColumnSum(pitchers, "SVH")),
     ERA |-> RoundTo(ColumnMean(pitchers, "ERA"), 100),
     WHIP |-> RoundTo(ColumnMean(pitchers, "WHIP"), 1000)]

\* GET /teams/<team_id>/stats: the same two computations in one response.
get_team_all_stats(hitters, pitchers) ==
    [hitting_stats |-> get_team_hitting_stats(hitters),
     pitching_stats |-> get_team_pitching_stats(pitchers)]

\* The dictionary get_current_team_stats builds from its two result sets.
TeamStatsOfRows(hitters, pitchers) ==
    [R |-> FromInt(ColumnSum(hitters, "R")),
     HR |-> FromInt(ColumnSum(hitters, "HR")),
     RBI |-> FromInt(ColumnSum(hitters, "RBI")),
     SB |-> FromInt(ColumnSum(hitters, "SB")),
     AVG |-> TeamAVG(hitters),
     W |-> FromInt(ColumnSum(pitchers, "W")),
     K |-> FromInt(ColumnSum(pitchers, "SO")),
     SVH |-> FromInt(ColumnSum(pitchers, "SVH")),
     ERA |-> TeamERA(pitchers),
     WHIP |-> TeamWHIP(pitchers)]

\* The totals get_current_team_stats derives from the rows of two id sets.
AggregateStats(hitters, pitchers) ==
    TeamStatsOfRows([h \in hitters |-> HitterRows[h]], [p \in pitchers |-> PitcherRows[p]])

get_current_team_stats(team_id) ==
    AggregateStats(HittersOf(team_id), PitchersOf(team_id))

\* Standings row of a model, every column as a rational.
get_model_thresholds(model_id) ==
    LET m == Standings[model_id] IN
    [R |-> FromInt(m.R), HR |-> FromInt(m.HR), RBI |-> FromInt(m.RBI),
     SB |-> FromInt(m.SB), AVG |-> m.AVG, W |-> FromInt(m.W), K |-> FromInt(m.K),
     ERA |-> m.ERA, WHIP |-> m.WHIP, SVH |-> FromInt(m.SVH)]

CountingFloor == <<1, 10>>
AvgFloor == <<1, 1000>>

calculate_category_gaps(team_stats, thresholds) ==
    [R |-> RMax(RSub(thresholds.R, team_stats.R), CountingFloor),
     HR |-> RMax(RSub(thresholds.HR, team_stats.HR), CountingFloor),
     RBI |-> RMax(RSub(thresholds.RBI, team_stats.RBI), CountingFloor),
     SB |-> RMax(RSub(thresholds.SB, team_stats.SB), CountingFloor),
     W |-> RMax(RSub(thresholds.W, team_stats.W), CountingFloor),
     K |-> RMax(RSub(thresholds.K, team_stats.K), CountingFloor),
     SVH |-> RMax(RSub(thresholds.SVH, team_stats.SVH), CountingFloor),
     ERA |-> RMax(RSub(team_stats.ERA, thresholds.ERA), CountingFloor),
     WHIP |-> RMax(RSub(team_stats.WHIP, thresholds.WHIP), CountingFloor),
     AVG |-> RMax(RSub(thresholds.AVG, team_stats.AVG), AvgFloor)]

\* ------------------------------------------------------------- the scorer
\* GET /players/available without a position filter: the rows it lists.
get_available_players(player_type) ==
    IF player_type = "hitter"
    THEN {h \in HitterIds : Hitters[h].HittingTeamId = NULL /\ Hitters[h].Status = "FA"}
    ELSE {p \in PitcherIds : Pitchers[p].PitchingTeamId = NULL /\ Pitchers[p].Status = "FA"}

get_available_hitters_any_status(team_id) ==
    {h \in HitterIds : Hitters[h].HittingTeamId = NULL \/ Hitters[h].HittingTeamId # team_id}
get_available_hitters(team_id) ==
    {h \in HitterIds : /\ Hitters[h].HittingTeamId = NULL \/ Hitters[h].HittingTeamId # team_id
                       /\ Hitters[h].Status = "FA"}

get_available_pitchers(team_id) ==
    {p \in PitcherIds : /\ Pitchers[p].PitchingTeamId = NULL \/ Pitchers[p].PitchingTeamId # team_id
                        /\ Pitchers[p].Status = "FA"}

\* position_multipliers.get(key, 1.0): the key is the whole column value.
position_multipliers(key) ==
    IF Len(key) # 1 THEN FromInt(1)
    ELSE CASE key[1] = "C" -> <<6, 5>>
           [] key[1] = "SS" -> <<23, 20>>
           [] key[1] = "2B" -> <<11, 10>>
           [] key[1] = "3B" -> <<21, 20>>
           [] key[1] = "RP" -> <<11, 10>>
           [] OTHER -> FromInt(1)

\* One `if gaps[stat] > 0: sg_value += value / gaps[stat]` step.
CountingTermUnweighted(value, gap) == FromInt(OrZero(value))
CountingTermFlat(value, gap) ==
    IF RLt(Zero, gap) /\ value # None THEN RDiv(FromInt(1), gap) ELSE Zero
CountingTerm(value, gap) ==
    IF RLt(Zero, gap) THEN RDiv(FromInt(OrZero(value)), gap) ELSE Zero

\* The columns of a Pitchers row (the table has no Role column).
PitcherColumns == {"PitchingPlayerId", "PlayerName", "Team", "Position", "Status",
                   "Age", "PitchingTeamId", "OriginalSalary", "AdjustedSalary",
                   "AuctionSalary", "W", "QS", "ERA", "WHIP", "G", "SV", "HLD", "SVH",
                   "IP", "SO", "K_9", "BB_9", "BABIP", "FIP", "SGCalc"}

\* Lines 1654-1658: the counting categories of a hitter.
HitterCounting(player, gaps) ==
    RAdd(RAdd(CountingTerm(player.R, gaps.R), CountingTerm(player.HR, gaps.HR)),
         RAdd(CountingTerm(player.RBI, gaps.RBI), CountingTerm(player.SB, gaps.SB)))

\* Lines 1660-1669: the AVG term of a hitter.
HitterRateNoTeam(player, team_stats, gaps) ==
    LET ab == OrZero(player.AB)
        hits == OrZero(player.H)
    IN  IF RLt(Zero, gaps.AVG) /\ ab > 0
        THEN RDiv(RMul(Rat(hits, ab), FromInt(ab)), gaps.AVG)
        ELSE Zero
HitterRate(player, team_stats, gaps) ==
    LET ab == OrZero(player.AB)
        hits == OrZero(player.H)
    IN  IF RLt(Zero, gaps.AVG) /\ ab > 0
        THEN RDiv(RMul(RSub(Rat(hits, ab), team_stats.AVG), FromInt(ab)), gaps.AVG)
        ELSE Zero

\* calculate_sg_value(player, ..., is_hitter=True) for a Hitters row.
HitterRowSG(player, team_stats, gaps) ==
    RMul(RAdd(HitterCounting(player, gaps), HitterRate(player, team_stats, gaps)),
         position_multipliers(player.Position))

\* Lines 1672-1676: the counting categories of a pitcher.
PitcherCountingNoStrikeouts(player, gaps) ==
    RAdd(CountingTerm(player.W, gaps.W), CountingTerm(player.SVH, gaps.SVH))
PitcherCounting(player, gaps) ==
    RAdd(RAdd(CountingTerm(player.W, gaps.W), CountingTerm(player.SO, gaps.K)),
         CountingTerm(player.SVH, gaps.SVH))

\* Lines 1678-1691: the ERA and WHIP terms of a pitcher.
PitcherRate(player, team_stats, gaps) ==
    LET ip == OrZero(player.IP)
        era == IF RLt(Zero, gaps.ERA) /\ ip > 0
               THEN RDiv(RMul(RSub(team_stats.ERA, OrZeroReal(player.ERA)), FromInt(ip)), gaps.ERA)
               ELSE Zero
        whip == IF RLt(Zero, gaps.WHIP) /\ ip > 0
                THEN RDiv(RMul(RSub(team_stats.WHIP, OrZeroReal(player.WHIP)), FromInt(ip)), gaps.WHIP)
                ELSE Zero
    IN  RAdd(era, whip)

\* calculate_sg_value(player, ..., is_hitter=False) for a Pitchers row.
PitcherRowSG(player, team_stats, gaps) ==
    LET total == RAdd(PitcherCounting(player, gaps), PitcherRate(player, team_stats, gaps))
    IN  IF "Role" \in PitcherColumns
        THEN RMul(total, position_multipliers(player.Role))
        ELSE total

HitterSG(h, team_stats, gaps) == HitterRowSG(HitterRows[h], team_stats, gaps)

PitcherSG(p, team_stats, gaps) == PitcherRowSG(PitcherRows[p], team_stats, gaps)

calculate_sg_value(player_id, team_stats, gaps, is_hitter) ==
    IF is_hitter THEN HitterSG(player_id, team_stats, gaps)
    ELSE PitcherSG(player_id, team_stats, gaps)

\* The scores the scorer computes for a team under a model: one per row of
\* each table (only the available players' scores are ever used).
Scores(team_id, model_id) ==
    LET team_stats == get_current_team_stats(team_id)
        gaps == calculate_category_gaps(team_stats, get_model_thresholds(model_id))
    IN  [hitting |-> [h \in HitterIds |-> calculate_sg_value(h, team_stats, gaps, TRUE)],
         pitching |-> [p \in PitcherIds |-> calculate_sg_value(p, team_stats, gaps, FALSE)]]

\* UPDATE Hitters SET SGCalc = ? WHERE HittingPlayerId = ?, once for each
\* player of `players` with that player's value in `sg`.
update_player_sg(table, players, sg) ==
    [id \in DOMAIN table |->
        IF id \in players THEN [table[id] EXCEPT !.SGCalc = sg[id]] ELSE table[id]]

\* ORDER BY SGCalc DESC over the rows `ids` of `table` (ties in id order).
RECURSIVE OrderBySGDesc(_, _)
OrderBySGDesc(table, ids) ==
    IF ids = {} THEN <<>>
    ELSE LET top == CHOOSE x \in ids :
                        \A y \in ids :
                            \/ RLt(table[y].SGCalc, table[x].SGCalc)
                            \/ table[y].SGCalc = table[x].SGCalc /\ x <= y
         IN  <<top>> \o OrderBySGDesc(table, ids \ {top})

TopLimit == 25

get_top_players_by_sg(table, limit) ==
    LET ranked == OrderBySGDesc(table,
                      {id \in DOMAIN table :
                          table[id].SGCalc # NullReal /\ table[id].Status = "FA"})
    IN  [i \in 1..(IF Len(ranked) < limit THEN Len(ranked) ELSE limit) |->
            [id |-> ranked[i], SGCalc |-> table[ranked[i]].SGCalc]]

NoSuchModel == 3

\* POST /calculate-standard-gains, served without interruption.
calculate_standard_gains ==
    /\ ops < MaxOps
    /\ ops' = ops + 1
    /\ UNCHANGED <<req, writer, call>>
    /\ UNCHANGED <<TeamHitters, TeamPitchers, hitterRosters, pitcherRosters, lp>>
    /\ \E team_id \in Teams \cup {NoSuchTeam}, model_id \in ModelIds \cup {NoSuchModel} :
        IF team_id \notin Teams \/ model_id \notin ModelIds
        THEN /\ response' = [route |-> "gains", code |-> 500,
                             team_id |-> team_id, model_id |-> model_id]
             /\ UNCHANGED <<Hitters, Pitchers>>
        ELSE LET sg_value == Scores(team_id, model_id)
                 hitters_after ==
                     update_player_sg(Hitters, get_available_hitters(team_id), sg_value.hitting)
                 pitchers_after ==
                     update_player_sg(Pitchers, get_available_pitchers(team_id), sg_value.pitching)
             IN  /\ Hitters' = hitters_after
                 /\ Pitchers' = pitchers_after
                 /\ response' =
                       [route |-> "gains", code |-> 200,
                        team_id |-> team_id, model_id |-> model_id,
                        top_hitters |-> get_top_players_by_sg(hitters_after, TopLimit),
                        top_pitchers |-> get_top_players_by_sg(pitchers_after, TopLimit)]

\* --------------------------------------------------------- the optimizer
LineupTypes == {"hitting", "pitching", "both"}

\* The roster columns generate_optimal_lineup has to fill: the empty ones (all
\* of them when the team has no row), bench columns only up to the quota.
OpenPositionsNoCap(has_row, row, positions, bench_positions) ==
    {position \in positions : ~has_row \/ row[position] = NULL}
OpenPositions(has_row, row, positions, bench_positions) ==
    {position \in positions :
        /\ ~has_row \/ row[position] = NULL
        /\ ~IsBench(position) \/ BenchIndex(position) <= bench_positions}

hitter_positions(team_id, lineup_type, bench_positions) ==
    IF lineup_type = "pitching" THEN {}
    ELSE OpenPositions(team_id \in hitterRosters, TeamHitters[team_id],
                       HITTER_POSITIONS, bench_positions)

pitcher_positions(team_id, lineup_type, bench_positions) ==
    IF lineup_type = "hitting" THEN {}
    ELSE OpenPositions(team_id \in pitcherRosters, TeamPitchers[team_id], PITCHER_POSITIONS,
                       IF lineup_type = "both"
                       THEN TOTAL_BENCH_POSITIONS - bench_positions
                       ELSE bench_positions)

\* `player_position in position_requirements`: the whole Position string
\* is looked up in the list of positions the roster slot accepts.
CanPlay(player_position, position) ==
    Len(player_position) = 1 /\ player_position[1] \in POSITION_MAPPING(position)

\* The keys of player_vars: <<type, player id, roster position>>.
player_vars(hitters, hpositions, pitchers, ppositions) ==
    {v \in {"hitting"} \X hitters \X hpositions :
        CanPlay(HitterRows[v[2]].Position, v[3])}
    \cup ({"pitching"} \X pitchers \X ppositions)

AdjustedSalary(v) ==
    IF v[1] = "hitting" THEN HitterRows[v[2]].AdjustedSalary
    ELSE PitcherRows[v[2]].AdjustedSalary

\* Value of the salary expression: the sum of AdjustedSalary over the
\* variables set to 1.
RECURSIVE TotalSalary(_)
TotalSalary(x) ==
    IF x = {} THEN 0
    ELSE LET v == CHOOSE w \in x : TRUE IN AdjustedSalary(v) + TotalSalary(x \ {v})

\* Objective value: sum of the SGCalc the handler holds for each chosen player.
RECURSIVE Objective(_, _)
Objective(sg, x) ==
    IF x = {} THEN Zero
    ELSE LET v == CHOOSE w \in x : TRUE IN RAdd(sg[v[1]][v[2]], Objective(sg, x \ {v}))

\* Constraint 1: total AdjustedSalary of the chosen variables within budget.
BudgetConstraintDropped(x, budget) == TRUE
BudgetConstraint(x, budget) == TotalSalary(x) <= budget

\* Constraints 2 and 3 of scope "both" (2 otherwise): each position is filled
\* by exactly one player.
PositionConstraint(x, type, positions) ==
    \A position \in positions :
        Cardinality({v \in x : v[1] = type /\ v[3] = position}) = 1

\* Constraints 4 and 5 of scope "both" (3 otherwise): each player is assigned
\* to at most one position.
PlayerConstraintDropped(x, type, players) == TRUE
PlayerConstraint(x, type, players) ==
    \A player \in players :
        Cardinality({v \in x : v[1] = type /\ v[2] = player}) <= 1

\* The 0/1 vectors over one player type that give every position one player
\* (any other vector breaks a position row), as the set of variables at 1.
Selections(type, players, positions) ==
    {{<<type, f[position], position>> : position \in positions} :
        f \in [positions -> players]}

\* The vectors over one player type that satisfy that type's rows.
FeasibleForAnyPlayer(problem, type, players, positions) ==
    {x \in Selections(type, players, positions) :
        /\ PositionConstraint(x, type, positions)
        /\ PlayerConstraint(x, type, players)}
FeasibleFor(problem, type, players, positions) ==
    {x \in Selections(type, players, positions) :
        /\ x \subseteq problem.player_vars
        /\ PositionConstraint(x, type, positions)
        /\ PlayerConstraint(x, type, players)}

\* The feasible region of the program.
Feasible(problem) ==
    {x \in {xh \cup xp :
              xh \in FeasibleFor(problem, "hitting", problem.hitters, problem.hitter_positions),
              xp \in FeasibleFor(problem, "pitching", problem.pitchers, problem.pitcher_positions)} :
        BudgetConstraint(x, problem.budget)}

\* The vectors of `feasible` of greatest objective value.
Optimum(feasible, sg) ==
    LET value == [x \in feasible |-> Objective(sg, x)]
    IN  {x \in feasible : \A y \in feasible : RLe(value[y], value[x])}

\* prob.solve run to completion: the feasible vectors of greatest objective value.
Solve(problem) == Optimum(Feasible(problem), problem.SGCalc)

\* What prob.solve(PULP_CBC_CMD(timeLimit=30)) can leave behind: the status
\* string of the problem and, under status "Optimal", the vector x the
\* handler reads from the variables.  A run that completes proves an optimum
\* or infeasibility.  A run the time limit stops has either found no vector,
\* or holds an incumbent: some feasible vector, which the library reports as
\* "Not Solved" or as "Optimal" depending on its version.
SolverOutcomes(problem) ==
    LET feasible == Feasible(problem)
        optimal == Optimum(feasible, problem.SGCalc)
    IN  (IF optimal = {}
         THEN {[status |-> "Infeasible", timed_out |-> FALSE, incumbent |-> FALSE, x |-> {}]}
         ELSE {[status |-> "Optimal", timed_out |-> FALSE, incumbent |-> TRUE, x |-> x] :
                  x \in optimal})
        \cup {[status |-> "Not Solved", timed_out |-> TRUE, incumbent |-> FALSE, x |-> {}]}
        \cup (IF feasible = {} THEN {}
              ELSE {[status |-> "Not Solved", timed_out |-> TRUE, incumbent |-> TRUE, x |-> {}]})
        \cup {[status |-> "Optimal", timed_out |-> TRUE, incumbent |-> TRUE, x |-> x] :
                  x \in feasible}

\* The SGCalc the handler holds in each candidate's dict after its scoring
\* loop: the stored score, or the new one when none was stored.
LocalSG(table, players, fresh) ==
    [id \in DOMAIN table |->
        IF id \in players /\ table[id].SGCalc = NullReal THEN fresh[id]
        ELSE table[id].SGCalc]

\* The hitting and pitching columns of a team_stats dictionary.
HittingStats(stats) ==
    [R |-> stats.R, HR |-> stats.HR, RBI |-> stats.RBI, SB |-> stats.SB, AVG |-> stats.AVG]
PitchingStats(stats) ==
    [W |-> stats.W, K |-> stats.K, ERA |-> stats.ERA, WHIP |-> stats.WHIP, SVH |-> stats.SVH]

\* The players of a kind ("hitting" or "pitching") in a set of assignments
\* <<type, player id, roster position>>.
AssignedIds(x, type) == {v[2] : v \in {w \in x : w[1] = type}}

\* calculate_optimized_team_stats: each half is computed only when its list
\* of optimized players is not empty, from the team's rows outside the list
\* and the rows of the list; otherwise it keeps its initial zeros.
calculate_optimized_team_stats(team_id, optimized_hitters, optimized_pitchers) ==
    [optimized_hitting_stats |->
        HittingStats(
            IF optimized_hitters # {}
            THEN AggregateStats((HittersOf(team_id) \ optimized_hitters)
                                    \cup optimized_hitters, {})
            ELSE AggregateStats({}, {})),
     optimized_pitching_stats |->
        PitchingStats(
            IF optimized_pitchers # {}
            THEN AggregateStats({}, (PitchersOf(team_id) \ optimized_pitchers)
                                        \cup optimized_pitchers)
            ELSE AggregateStats({}, {}))]

\* The request bodies of /generate-optimal-lineup: a lineup_type that is
\* absent or no scope, a budget float() rejects, a bench quota above the
\* total bench capacity.
LineupTypeInputs == LineupTypes \cup {"weekly", Missing}
BudgetInputs == {[numeric |-> TRUE, value |-> b] : b \in Budgets}
                    \cup {[numeric |-> FALSE, value |-> 0]}
BenchQuotaInputs == BenchQuotas \cup {TOTAL_BENCH_POSITIONS + 2}

\* POST /generate-optimal-lineup
generate_optimal_lineup ==
    /\ ops < MaxOps
    \* Bound: a behaviour holds one lineup request, after all its other requests.
    /\ ops' = MaxOps
    /\ UNCHANGED <<req, writer, call>>
    /\ UNCHANGED <<TeamHitters, TeamPitchers, hitterRosters, pitcherRosters>>
    /\ \E team_id \in Teams \cup {NoSuchTeam}, model_id \in ModelIds \cup {NoSuchModel},
          budget_input \in BudgetInputs, lineup_type \in LineupTypeInputs,
          bench_positions \in BenchQuotaInputs :
        IF lineup_type = Missing
        THEN /\ response' = [route |-> "lineup", code |-> 400,
                             error |-> [message |-> "Missing required field",
                                        field |-> "lineup_type"]]
             /\ UNCHANGED <<Hitters, Pitchers, lp>>
        ELSE IF ~budget_input.numeric
        THEN /\ response' = [route |-> "lineup", code |-> 500,
                             error |-> [message |-> "could not convert string to float"]]
             /\ UNCHANGED <<Hitters, Pitchers, lp>>
        ELSE IF lineup_type \notin LineupTypes
        THEN /\ response' = [route |-> "lineup", code |-> 400,
                             error |-> [message |-> "lineup_type must be either hitting, pitching, or both"]]
             /\ UNCHANGED <<Hitters, Pitchers, lp>>
        ELSE IF team_id \notin Teams
        THEN /\ response' = [route |-> "lineup", code |-> 404,
                             team_id |-> team_id, model_id |-> model_id,
                             error |-> [message |-> "No team found with TeamId"]]
             /\ UNCHANGED <<Hitters, Pitchers, lp>>
        ELSE
        LET budget == budget_input.value
            hpositions == hitter_positions(team_id, lineup_type, bench_positions)
            ppositions == pitcher_positions(team_id, lineup_type, bench_positions)
            available_hitters ==
                IF lineup_type = "pitching" THEN {} ELSE get_available_hitters(team_id)
            available_pitchers ==
                IF lineup_type = "hitting" THEN {} ELSE get_available_pitchers(team_id)
        IN
        IF hpositions = {} /\ ppositions = {}
        THEN /\ response' = [route |-> "lineup", code |-> 200,
                             team_id |-> team_id, model_id |-> model_id,
                             status |-> "success", solved |-> FALSE, optimal_lineup |-> {}]
             /\ UNCHANGED <<Hitters, Pitchers, lp>>
        ELSE IF model_id \notin ModelIds
        THEN /\ response' = [route |-> "lineup", code |-> 500,
                             team_id |-> team_id, model_id |-> model_id,
                             error |-> [message |-> "No model found with ModelId"]]
             /\ UNCHANGED <<Hitters, Pitchers, lp>>
        ELSE
        LET sg_value == Scores(team_id, model_id)
            problem ==
                [built |-> TRUE, team_id |-> team_id, model_id |-> model_id,
                 lineup_type |-> lineup_type, budget |-> budget,
                 bench_positions |-> bench_positions,
                 hitters |-> available_hitters, pitchers |-> available_pitchers,
                 hitter_positions |-> hpositions, pitcher_positions |-> ppositions,
                 player_vars |-> player_vars(available_hitters, hpositions,
                                             available_pitchers, ppositions),
                 sg_value |-> sg_value,
                 SGCalc |-> [hitting |-> LocalSG(Hitters, available_hitters, sg_value.hitting),
                             pitching |-> LocalSG(Pitchers, available_pitchers, sg_value.pitching)]]
        IN  /\ Hitters' = update_player_sg(Hitters,
                             {h \in available_hitters : Hitters[h].SGCalc = NullReal},
                             sg_value.hitting)
            /\ Pitchers' = update_player_sg(Pitchers,
                             {p \in available_pitchers : Pitchers[p].SGCalc = NullReal},
                             sg_value.pitching)
            /\ \E outcome \in SolverOutcomes(problem) :
                 /\ lp' = [f \in DOMAIN problem \cup {"solver"} |->
                              IF f = "solver" THEN outcome ELSE problem[f]]
                 /\ IF outcome.status # "Optimal"
                    THEN response' = [route |-> "lineup", code |-> 400,
                                      team_id |-> team_id, model_id |-> model_id,
                                      status |-> "error", solver |-> outcome.status,
                                      hitter_positions |-> hpositions,
                                      pitcher_positions |-> ppositions]
                    ELSE response' = [route |-> "lineup", code |-> 200,
                                      team_id |-> team_id, model_id |-> model_id,
                                      status |-> "success",
                                      solved |-> TRUE, optimal_lineup |-> outcome.x,
                                      total_cost |-> TotalSalary(outcome.x),
                                      total_sg_value |-> Objective(problem.SGCalc, outcome.x),
                                      hitter_positions |-> hpositions,
                                      pitcher_positions |-> ppositions,
                                      optimized_stats |->
                                          calculate_optimized_team_stats(team_id,
                                              AssignedIds(outcome.x, "hitting"),
                                              AssignedIds(outcome.x, "pitching"))]

Next ==
    \/ update_team_roster
    \/ remove_player
    \/ set_player_as_free_agent
    \/ calculate_standard_gains
    \/ generate_optimal_lineup

Spec == Init /\ [][Next]_vars

\* The same requests, served to a league in which team 1 already has both of
\* its pitcher slots filled (two roster updates after load).
InitRostered ==
    /\ TeamHitters = [t \in Teams |-> [p \in HITTER_POSITIONS |-> NULL]]
    /\ TeamPitchers = [t \in Teams |->
                         IF t = 1 THEN [Pitcher1 |-> 1, Bench1 |-> 2]
                         ELSE [p \in PITCHER_POSITIONS |-> NULL]]
    /\ hitterRosters = {}
    /\ pitcherRosters = {1}
    /\ Hitters = [h \in HitterIds |->
                    [HittingTeamId |-> NULL, Status |-> "FA", SGCalc |-> NullReal]]
    /\ Pitchers = [p \in PitcherIds |->
                    [PitchingTeamId |-> 1, Status |-> "FA", SGCalc |-> NullReal]]
    /\ response = NoResponse
    /\ lp = NoLp
    /\ ops = 0
    /\ req = [r \in Requests |-> Idle]
    /\ writer = [hitting |-> [h \in HitterIds |-> 0], pitching |-> [p \in PitcherIds |-> 0]]
    /\ call = NoCall

SpecRostered == InitRostered /\ [][Next]_vars

\* ------------------------------------------ scoring requests in flight
\* calculate_standard_gains served one statement at a time, so that the
\* statements of two requests interleave.  Every update_player_sg commits, so
\* each write is visible to the other request at once.
Min(S) == CHOOSE x \in S : \A y \in S : x <= y

\* The next statement of a request that still has `hitters` and `pitchers`
\* to score.
NextPc(hitters, pitchers) ==
    IF hitters # {} THEN "hitters"
    ELSE IF pitchers # {} THEN "pitchers"
    ELSE "top_hitters"

\* Lines 1314-1324: team stats, thresholds, gaps and the candidate lists.
BeginScoring ==
    \E r \in Requests, model_id \in ModelIds :
        /\ req[r].pc = "idle"
        /\ LET hitters == get_available_hitters(r)
               pitchers == get_available_pitchers(r)
           IN  req' = [req EXCEPT ![r] =
                        [pc |-> NextPc(hitters, pitchers), team_id |-> r,
                         model_id |-> model_id, sg_value |-> Scores(r, model_id),
                         hitters |-> hitters, pitchers |-> pitchers]]
        /\ UNCHANGED <<call, TeamHitters, TeamPitchers, hitterRosters, pitcherRosters,
                       Hitters, Pitchers, response, lp, ops, writer>>

\* One pass of the loop of lines 1327-1329.
ScoreHitter ==
    \E r \in Requests :
        /\ req[r].pc = "hitters"
        /\ LET hitter == Min(req[r].hitters)
               rest == req[r].hitters \ {hitter}
           IN  /\ Hitters' = update_player_sg(Hitters, {hitter}, req[r].sg_value.hitting)
               /\ writer' = [writer EXCEPT !.hitting[hitter] = r]
               /\ req' = [req EXCEPT ![r].hitters = rest,
                                     ![r].pc = NextPc(rest, req[r].pitchers)]
        /\ UNCHANGED <<call, TeamHitters, TeamPitchers, hitterRosters, pitcherRosters,
                       Pitchers, response, lp, ops>>

\* One pass of the loop of lines 1332-1334.
ScorePitcher ==
    \E r \in Requests :
        /\ req[r].pc = "pitchers"
        /\ LET pitcher == Min(req[r].pitchers)
               rest == req[r].pitchers \ {pitcher}
           IN  /\ Pitchers' = update_player_sg(Pitchers, {pitcher}, req[r].sg_value.pitching)
               /\ writer' = [writer EXCEPT !.pitching[pitcher] = r]
               /\ req' = [req EXCEPT ![r].pitchers = rest,
                                     ![r].pc = NextPc({}, rest)]
        /\ UNCHANGED <<call, TeamHitters, TeamPitchers, hitterRosters, pitcherRosters,
                       Hitters, response, lp, ops>>

\* The rows get_top_players_by_sg(is_hitter=True) returns to request r.
TopHittersOwnScores(r) ==
    get_top_players_by_sg(
        update_player_sg(Hitters, get_available_hitters(r), req[r].sg_value.hitting),
        TopLimit)
TopHitters(r) == get_top_players_by_sg(Hitters, TopLimit)

\* The rows get_top_players_by_sg(is_hitter=False) returns to request r.
TopPitchers(r) == get_top_players_by_sg(Pitchers, TopLimit)

\* Line 1337.
RankHitters ==
    \E r \in Requests :
        /\ req[r].pc = "top_hitters"
        /\ req' = [req EXCEPT ![r] =
                    [pc |-> "top_pitchers", team_id |-> req[r].team_id,
                     model_id |-> req[r].model_id, sg_value |-> req[r].sg_value,
                     top_hitters |-> TopHitters(r), read_hitters |-> writer.hitting]]
        /\ UNCHANGED <<call, TeamHitters, TeamPitchers, hitterRosters, pitcherRosters,
                       Hitters, Pitchers, response, lp, ops, writer>>

\* Lines 1338-1346: the second ranking and the response.
RankPitchers ==
    \E r \in Requests :
        /\ req[r].pc = "top_pitchers"
        /\ req' = [req EXCEPT ![r] =
                    [pc |-> "done", team_id |-> req[r].team_id,
                     model_id |-> req[r].model_id, sg_value |-> req[r].sg_value,
                     top_hitters |-> req[r].top_hitters,
                     read_hitters |-> req[r].read_hitters,
                     top_pitchers |-> TopPitchers(r), read_pitchers |-> writer.pitching]]
        /\ UNCHANGED <<call, TeamHitters, TeamPitchers, hitterRosters, pitcherRosters,
                       Hitters, Pitchers, response, lp, ops, writer>>

NextRace ==
    \/ BeginScoring
    \/ ScoreHitter
    \/ ScorePitcher
    \/ RankHitters
    \/ RankPitchers

SpecRace == Init /\ [][NextRace]_vars

\* ------------------------------------------- a scoring request that fails
\* What a table holds once request r has left the scoring loop through
\* `except Exception`: every update_player_sg committed before the exception,
\* and the handler only builds the 500 response.
AfterExceptionRollback(table, wrote, r) ==
    [id \in DOMAIN table |->
        IF wrote[id] = r THEN [table[id] EXCEPT !.SGCalc = NullReal] ELSE table[id]]
AfterException(table, wrote, r) == table

\* calculate_sg_value or update_player_sg raises for the next candidate of
\* request r (a value that is no number, a locked database).
ScoringFails ==
    \E r \in Requests :
        /\ req[r].pc \in {"hitters", "pitchers"}
        /\ Hitters' = AfterException(Hitters, writer.hitting, r)
        /\ Pitchers' = AfterException(Pitchers, writer.pitching, r)
        /\ req' = [req EXCEPT ![r].pc = "failed"]
        /\ UNCHANGED <<call, TeamHitters, TeamPitchers, hitterRosters, pitcherRosters,
                       response, lp, ops, writer>>

NextFail ==
    \/ BeginScoring
    \/ ScoreHitter
    \/ ScorePitcher
    \/ RankHitters
    \/ RankPitchers
    \/ ScoringFails

SpecFail == Init /\ [][NextFail]_vars

\* ------------------------------------------- the scoring functions alone
\* One call of get_current_team_stats, calculate_category_gaps or
\* calculate_sg_value: the arguments are drawn when the behaviour starts and
\* the action of the function returns its result.

\* Hitters rows a roster query may return (None is a NULL column).
\* The AVG column is the hits over the at-bats of the row, NULL without an
\* AB value.
StoredAVG(ab, h) ==
    IF ab = None THEN NullReal
    ELSE IF ab = 0 THEN Zero
    ELSE Rat(OrZero(h), ab)
RosterHitterRows ==
    {[R |-> r, HR |-> 2, RBI |-> 5, SB |-> None, AB |-> ab, H |-> h,
      AVG |-> StoredAVG(ab, h)] :
        r \in {None, 6}, ab \in {None, 0, 4, 10}, h \in {None, 0, 1, 3}}
    \ {row \in [R : {None, 6}, HR : {2}, RBI : {5}, SB : {None},
                 AB : {None, 0}, H : {1, 3}, AVG : {NullReal, Zero}] : TRUE}

\* Pitchers rows a roster query may return.
RosterPitcherRows ==
    [W : {3}, SO : {None, 10}, SVH : {0},
     IP : {None, 0, 50, 100}, ERA : {NullReal, <<3, 1>>, <<5, 1>>},
     WHIP : {NullReal, <<3, 2>>}]

\* The most rows a drawn roster holds.
MaxRoster == 2

Rosters(rows) == UNION {[1..n -> rows] : n \in 0..MaxRoster}

\* Team totals and a threshold row to take gaps from.
TeamStatsInputs ==
    {[R |-> FromInt(c), HR |-> FromInt(c), RBI |-> FromInt(c), SB |-> FromInt(c),
      AVG |-> avg, W |-> FromInt(k), K |-> FromInt(k), SVH |-> FromInt(k),
      ERA |-> era, WHIP |-> whip] :
        c \in {0, 10, 12}, k \in {0, 4, 30},
        avg \in {Zero, <<1, 4>>, <<3, 10>>, <<1, 3>>},
        era \in {Zero, <<3, 1>>, <<9, 2>>}, whip \in {Zero, <<1, 1>>, <<13, 10>>}}

\* The team totals and gaps a scoring run passes to calculate_sg_value.
ScoringContexts ==
    {[team_stats |-> [R |-> FromInt(850), HR |-> FromInt(200), RBI |-> FromInt(780),
                      SB |-> FromInt(100), AVG |-> <<1, 4>>, W |-> FromInt(70),
                      K |-> FromInt(1100), SVH |-> FromInt(60),
                      ERA |-> <<4, 1>>, WHIP |-> <<13, 10>>],
      gaps |-> [R |-> FromInt(150), HR |-> FromInt(50), RBI |-> FromInt(120),
                SB |-> FromInt(20), AVG |-> <<1, 50>>, W |-> FromInt(10),
                K |-> FromInt(100), SVH |-> FromInt(5),
                ERA |-> <<1, 2>>, WHIP |-> <<1, 10>>]]}
    \cup {[team_stats |-> AggregateStats(hs, PitcherIds),
           gaps |-> calculate_category_gaps(AggregateStats(hs, PitcherIds),
                                            get_model_thresholds(m))] :
              hs \in {{}, {1, 2}}, m \in ModelIds}

\* Hitters rows a candidate query may return.
CandidateHitterRows ==
    [Position : {<<"OF">>, <<"C">>, <<"SS", "2B">>},
     R : {None, 0, 80}, HR : {25}, RBI : {70}, SB : {None, 5},
     AB : {None, 0, 4}, H : {None, 0, 1}]

\* Pitchers rows a candidate query may return.
CandidatePitcherRows ==
    [Position : {<<"RP">>, <<"SP">>}, W : {None, 3}, SO : {None, 10}, SVH : {4},
     IP : {None, 0, 5}, ERA : {NullReal, <<3, 1>>, <<5, 1>>},
     WHIP : {NullReal, <<1, 1>>, <<3, 2>>}]

CallInputs ==
    {[fn |-> "get_current_team_stats", state |-> "called",
      hitters |-> hs, pitchers |-> <<>>] : hs \in Rosters(RosterHitterRows)}
    \cup {[fn |-> "get_current_team_stats", state |-> "called",
           hitters |-> <<>>, pitchers |-> ps] : ps \in Rosters(RosterPitcherRows)}
    \cup {[fn |-> "get_team_all_stats", state |-> "called",
           hitters |-> hs, pitchers |-> <<>>] : hs \in Rosters(RosterHitterRows)}
    \cup {[fn |-> "get_team_all_stats", state |-> "called",
           hitters |-> <<>>, pitchers |-> ps] : ps \in Rosters(RosterPitcherRows)}
    \cup {[fn |-> "calculate_category_gaps", state |-> "called",
           team_stats |-> ts, thresholds |-> get_model_thresholds(m)] :
              ts \in TeamStatsInputs, m \in ModelIds}
    \cup {[fn |-> "calculate_sg_value", state |-> "called", player |-> row,
           team_stats |-> c.team_stats, gaps |-> c.gaps, is_hitter |-> TRUE] :
              row \in CandidateHitterRows, c \in ScoringContexts}
    \cup {[fn |-> "calculate_sg_value", state |-> "called", player |-> row,
           team_stats |-> c.team_stats, gaps |-> c.gaps, is_hitter |-> FALSE] :
              row \in CandidatePitcherRows, c \in ScoringContexts}

InitCalc ==
    /\ Tables
    /\ call \in CallInputs

\* The call with its result.
Returned(c, result) ==
    [f \in DOMAIN c \cup {"result"} |->
        IF f = "result" THEN result ELSE IF f = "state" THEN "returned" ELSE c[f]]

TableVars == <<TeamHitters, TeamPitchers, hitterRosters, pitcherRosters,
               Hitters, Pitchers, response, lp, ops, req, writer>>

\* Lines 1364-1429, from the rows of the two roster queries.
CallTeamStats ==
    /\ call.fn = "get_current_team_stats" /\ call.state = "called"
    /\ call' = Returned(call, TeamStatsOfRows(call.hitters, call.pitchers))
    /\ UNCHANGED TableVars

\* Lines 1002-1272: the three team-stats endpoints, from the rows of their
\* roster queries.
CallTeamStatsEndpoint ==
    /\ call.fn = "get_team_all_stats" /\ call.state = "called"
    /\ call' = Returned(call, get_team_all_stats(call.hitters, call.pitchers))
    /\ UNCHANGED TableVars

\* Lines 1604-1621.
CallCategoryGaps ==
    /\ call.fn = "calculate_category_gaps" /\ call.state = "called"
    /\ call' = Returned(call, calculate_category_gaps(call.team_stats, call.thresholds))
    /\ UNCHANGED TableVars

\* Lines 1647-1710.
CallSgValue ==
    /\ call.fn = "calculate_sg_value" /\ call.state = "called"
    /\ call' = Returned(call,
                    IF call.is_hitter
                    THEN HitterRowSG(call.player, call.team_stats, call.gaps)
                    ELSE PitcherRowSG(call.player, call.team_stats, call.gaps))
    /\ UNCHANGED TableVars

NextCalc ==
    \/ CallTeamStats
    \/ CallTeamStatsEndpoint
    \/ CallCategoryGaps
    \/ CallSgValue

SpecCalc == InitCalc /\ [][NextCalc]_vars

\* ------------------------------------------------------------ properties
\* The last response is a solved lineup, and lp is the program it solved.
Solved == response.route = "lineup" /\ response.code = 200 /\ response.solved
\* The last response is from a request that built and solved a program.
Built == response.route = "lineup" /\ "hitter_positions" \in DOMAIN response

HittersIn(x) == {v[2] : v \in {w \in x : w[1] = "hitting"}}
PitchersIn(x) == {v[2] : v \in {w \in x : w[1] = "pitching"}}

\* C1: in every successful lineup the adjusted salaries of the assigned
\* players, hitters and pitchers together, sum to at most the budget.
C1_BudgetRespected ==
    Solved => TotalSalary(response.optimal_lineup) <= lp.budget

\* A scope "both" lineup with hitters and pitchers that uses the whole budget.
C1_Witness ==
    /\ Solved
    /\ lp.lineup_type = "both"
    /\ HittersIn(response.optimal_lineup) # {}
    /\ PitchersIn(response.optimal_lineup) # {}
    /\ TotalSalary(response.optimal_lineup) = lp.budget

\* C2: a successful lineup is a matching: each open position has exactly one
\* assigned player and no player is assigned to two positions.
C2_Matching ==
    Solved =>
        /\ \A position \in lp.hitter_positions :
             Cardinality({v \in response.optimal_lineup :
                            v[1] = "hitting" /\ v[3] = position}) = 1
        /\ \A position \in lp.pitcher_positions :
             Cardinality({v \in response.optimal_lineup :
                            v[1] = "pitching" /\ v[3] = position}) = 1
        /\ \A v, w \in response.optimal_lineup :
             v[1] = w[1] /\ v[2] = w[2] => v = w
        /\ \A v \in response.optimal_lineup :
             v[3] \in (IF v[1] = "hitting" THEN lp.hitter_positions ELSE lp.pitcher_positions)

\* A lineup of three or more players in which some player could have taken
\* either of two open positions.
C2_Witness ==
    /\ Solved
    /\ Cardinality(response.optimal_lineup) >= 3
    /\ \E v, w \in lp.player_vars : v[1] = w[1] /\ v[2] = w[2] /\ v[3] # w[3]

\* A slot accepts a player when some raw position of the player is in the
\* slot's eligibility set; Utility and Bench accept every player.
SlotAccepts(position, raw_positions) ==
    \/ position \in {"Utility", "Bench1", "Bench2", "Bench3"}
    \/ \E i \in DOMAIN raw_positions : raw_positions[i] \in POSITION_MAPPING(position)

\* The reference assignments of a program: every open position gets a
\* distinct eligible candidate and the salaries fit the budget.
ReferenceAssignments(problem) ==
    {a \in [hitting : [problem.hitter_positions -> problem.hitters],
            pitching : [problem.pitcher_positions -> problem.pitchers]] :
        /\ \A p, q \in problem.hitter_positions : p # q => a.hitting[p] # a.hitting[q]
        /\ \A p, q \in problem.pitcher_positions : p # q => a.pitching[p] # a.pitching[q]
        /\ \A p \in problem.hitter_positions :
             SlotAccepts(p, HitterRows[a.hitting[p]].Position)
        /\ ISum([p \in problem.hitter_positions |->
                    HitterRows[a.hitting[p]].AdjustedSalary], problem.hitter_positions)
           + ISum([p \in problem.pitcher_positions |->
                    PitcherRows[a.pitching[p]].AdjustedSalary], problem.pitcher_positions)
           <= problem.budget}

\* Total standard gain of a reference assignment under the scores of this request.
ReferenceGain(problem, a) ==
    RAdd(RSum([p \in problem.hitter_positions |-> problem.sg_value.hitting[a.hitting[p]]],
              problem.hitter_positions),
         RSum([p \in problem.pitcher_positions |-> problem.sg_value.pitching[a.pitching[p]]],
              problem.pitcher_positions))

\* C3: the total standard gain of a returned lineup is the greatest total
\* standard gain of any assignment that fills every open position with a
\* distinct eligible candidate within the budget.
C3_OptimalTotal ==
    Solved /\ ~lp.solver.timed_out =>
        \A a \in ReferenceAssignments(lp) :
            RLe(ReferenceGain(lp, a), Objective(lp.sg_value, response.optimal_lineup))

\* C4: every player occupies at most one roster slot in the whole league.
C4_OneSlotPerPlayer ==
    /\ \A h \in HitterIds :
         Cardinality({s \in Teams \X HITTER_POSITIONS : TeamHitters[s[1]][s[2]] = h}) <= 1
    /\ \A p \in PitcherIds :
         Cardinality({s \in Teams \X PITCHER_POSITIONS : TeamPitchers[s[1]][s[2]] = p}) <= 1

OnSomeRoster(type, id) ==
    IF type = "hitting"
    THEN \E t \in Teams, position \in HITTER_POSITIONS : TeamHitters[t][position] = id
    ELSE \E t \in Teams, position \in PITCHER_POSITIONS : TeamPitchers[t][position] = id

\* C5: every candidate of the scorer and optimizer is a free agent: a
\* player on no team's roster at the time of the request.
C5_CandidatesUnrostered ==
    Built =>
        /\ \A h \in lp.hitters : ~OnSomeRoster("hitting", h) /\ Hitters[h].HittingTeamId = NULL
        /\ \A p \in lp.pitchers : ~OnSomeRoster("pitching", p) /\ Pitchers[p].PitchingTeamId = NULL

\* A returned lineup that assigns a player who sits on another team's roster.
C5_RosteredCandidate ==
    /\ Solved
    /\ \E v \in response.optimal_lineup :
         /\ v[1] = "hitting"
         /\ Hitters[v[2]].HittingTeamId \in Teams \ {lp.team_id}
         /\ OnSomeRoster("hitting", v[2])

\* C6: every filled roster slot holds a player the slot accepts.
C6_SlotsHoldEligible ==
    /\ \A t \in Teams, position \in HITTER_POSITIONS :
         TeamHitters[t][position] # NULL =>
            /\ TeamHitters[t][position] \in HitterIds
            /\ SlotAccepts(position, HitterRows[TeamHitters[t][position]].Position)
    /\ \A t \in Teams, position \in PITCHER_POSITIONS :
         TeamPitchers[t][position] # NULL => TeamPitchers[t][position] \in PitcherIds

\* A two-position hitter sits in a single-position slot and a hitter sits in
\* a catch-all slot.
C6_Witness ==
    /\ \E t \in Teams :
         /\ TeamHitters[t]["ShortStop"] # NULL
         /\ HitterRows[TeamHitters[t]["ShortStop"]].Position = <<"2B", "SS">>
    /\ \E t \in Teams : TeamHitters[t]["Utility"] # NULL \/ TeamHitters[t]["Bench1"] # NULL

\* C7: the optimizer has a variable for a hitter and an open position exactly
\* when the position accepts one of the hitter's raw positions, and a
\* variable for every pitcher and open pitcher position.
C7_VariablesMatchEligibility ==
    Built =>
        /\ \A h \in lp.hitters, position \in lp.hitter_positions :
             <<"hitting", h, position>> \in lp.player_vars
                <=> SlotAccepts(position, HitterRows[h].Position)
        /\ \A p \in lp.pitchers, position \in lp.pitcher_positions :
             <<"pitching", p, position>> \in lp.player_vars

\* C8: after the scorer ran over a candidate, the stored score is the newly
\* computed one, and it is the score in the optimizer's objective.
C8_ScoresOverwritten ==
    /\ response.route = "gains" /\ response.code = 200 =>
         LET fresh == Scores(response.team_id, response.model_id) IN
         /\ \A h \in get_available_hitters(response.team_id) :
              Hitters[h].SGCalc = fresh.hitting[h]
         /\ \A p \in get_available_pitchers(response.team_id) :
              Pitchers[p].SGCalc = fresh.pitching[p]
    /\ Built =>
         /\ \A h \in lp.hitters :
              /\ Hitters[h].SGCalc = lp.sg_value.hitting[h]
              /\ lp.SGCalc.hitting[h] = lp.sg_value.hitting[h]
         /\ \A p \in lp.pitchers :
              /\ Pitchers[p].SGCalc = lp.sg_value.pitching[p]
              /\ lp.SGCalc.pitching[p] = lp.sg_value.pitching[p]

\* No assignment gives every open position a distinct candidate that has a
\* variable for it within the budget.
NoAssignment(problem) ==
    ~ \E f \in [problem.hitter_positions -> problem.hitters],
         g \in [problem.pitcher_positions -> problem.pitchers] :
        /\ \A p, q \in problem.hitter_positions : p # q => f[p] # f[q]
        /\ \A p, q \in problem.pitcher_positions : p # q => g[p] # g[q]
        /\ \A p \in problem.hitter_positions : <<"hitting", f[p], p>> \in problem.player_vars
        /\ \A p \in problem.pitcher_positions : <<"pitching", g[p], p>> \in problem.player_vars
        /\ ISum([p \in problem.hitter_positions |-> HitterRows[f[p]].AdjustedSalary],
                problem.hitter_positions)
           + ISum([p \in problem.pitcher_positions |-> PitcherRows[g[p]].AdjustedSalary],
                  problem.pitcher_positions) <= problem.budget

\* C10: when the program is infeasible the request ends with the 400
\* "no optimal solution" failure that lists the open positions.
C10_InfeasibleReported ==
    Built /\ NoAssignment(lp) =>
        /\ response.code = 400
        /\ response.status = "error"
        /\ response.hitter_positions = lp.hitter_positions
        /\ response.pitcher_positions = lp.pitcher_positions
        /\ response.hitter_positions \cup response.pitcher_positions # {}

\* Three open hitter positions and only two candidates with a variable.
C10_WitnessFewCandidates ==
    /\ Built
    /\ lp.solver.status = "Infeasible"
    /\ response.code = 400
    /\ Cardinality(lp.hitter_positions) = 3
    /\ Cardinality({v[2] : v \in lp.player_vars}) = 2
    /\ lp.budget = 9

\* C9: a scoring request returns, for every player in its rankings, the
\* score that the last request to write that player's SGCalc before the
\* ranking was read had computed, whichever request that was.
C9_RankingReturnsLastWrite ==
    \A r \in Requests :
        req[r].pc = "done" =>
            /\ \A i \in DOMAIN req[r].top_hitters :
                 LET e == req[r].top_hitters[i]
                     q == req[r].read_hitters[e.id]
                 IN  q # 0 /\ e.SGCalc = req[q].sg_value.hitting[e.id]
            /\ \A i \in DOMAIN req[r].top_pitchers :
                 LET e == req[r].top_pitchers[i]
                     q == req[r].read_pitchers[e.id]
                 IN  q # 0 /\ e.SGCalc = req[q].sg_value.pitching[e.id]

\* A finished request whose ranking lists a player with the score another
\* request wrote over the score this request had computed for that player.
C9_WitnessRace ==
    \E r \in Requests :
        /\ req[r].pc = "done"
        /\ \E i \in DOMAIN req[r].top_hitters :
             LET e == req[r].top_hitters[i] IN
             /\ req[r].read_hitters[e.id] \in Requests \ {r}
             /\ req[req[r].read_hitters[e.id]].team_id # req[r].team_id
             /\ e.SGCalc # req[r].sg_value.hitting[e.id]

\* C11: when the time limit stops the solve before an optimum is proven, an
\* incumbent, if there is one, is returned flagged as non-optimal; only with
\* no incumbent is the outcome reported as infeasible.
C11_IncumbentReturnedFlagged ==
    Built /\ lp.solver.timed_out =>
        IF lp.solver.incumbent
        THEN /\ response.code = 200
             /\ response.optimal_lineup # {}
             /\ response.status # "success"
        ELSE response.code = 400

\* The time limit stopped a solve that held an incumbent, and the request
\* ended with the 400 failure.
C11_IncumbentDropped ==
    /\ Built
    /\ lp.solver.timed_out
    /\ lp.solver.incumbent
    /\ response.code = 400
    /\ response.solver = "Not Solved"

\* The response just sent answers a scoring or lineup request that named a
\* team or a threshold model that does not exist.
NamesMissingRow(r) ==
    /\ r.route \in {"gains", "lineup"}
    /\ "team_id" \in DOMAIN r
    /\ r.team_id \notin Teams \/ r.model_id \notin ModelIds

\* C12: a scoring or lineup request that names a missing team or threshold
\* model ends as a NotFound failure, and no standard gain is written.
C12_MissingRowIsNotFound ==
    [][ops' # ops /\ NamesMissingRow(response')
            => response'.code = 404 /\ UNCHANGED <<Hitters, Pitchers>>]_vars

\* A lineup request that named a missing model ended with the generic 500
\* failure.
C12_MissingModelIs500 ==
    /\ response.route = "lineup"
    /\ response.code = 500
    /\ "model_id" \in DOMAIN response
    /\ response.team_id \in Teams
    /\ response.model_id \notin ModelIds

\* The response just sent reports a request body the handler could not use:
\* a missing field, a budget that is no number, or a lineup_type that is no
\* scope.
ReportsInvalidBody(r) ==
    /\ r.route = "lineup"
    /\ "error" \in DOMAIN r
    /\ r.error.message \in {"Missing required field", "could not convert string to float",
                            "lineup_type must be either hitting, pitching, or both"}

\* C13: a lineup request with a missing or malformed scope, a non-numeric
\* budget or a bench quota outside the total bench capacity is rejected as an
\* invalid request (400) before any computation: no program is built and no
\* score is written.
C13_InvalidRequestRejected ==
    [][ops' # ops /\ response'.route = "lineup" =>
            /\ ReportsInvalidBody(response') =>
                  response'.code = 400 /\ UNCHANGED <<Hitters, Pitchers, lp>>
            /\ "hitter_positions" \in DOMAIN response' =>
                  lp'.bench_positions \in 0..TOTAL_BENCH_POSITIONS]_vars

\* A lineup was computed and returned for a request whose bench quota is
\* above the total bench capacity.
C13_OverQuotaSolved ==
    /\ Solved
    /\ lp.bench_positions > TOTAL_BENCH_POSITIONS
    /\ lp.lineup_type = "both"

\* A non-numeric budget ended with the generic 500 failure.
C13_BadBudgetIs500 ==
    /\ response.route = "lineup"
    /\ response.code = 500
    /\ response.error.message = "could not convert string to float"

\* C14: in a scoring run every score update is persisted on its own.  When
\* the run has failed on a later candidate, each row it wrote last still holds
\* the score it wrote (no rollback), no other column of any row has changed,
\* and writing the same score to a row again leaves the table as it is.
C14_WritesSurviveFailure ==
    \A r \in Requests :
        req[r].pc = "failed" =>
            /\ \A h \in HitterIds :
                  writer.hitting[h] = r => Hitters[h].SGCalc = req[r].sg_value.hitting[h]
            /\ \A p \in PitcherIds :
                  writer.pitching[p] = r => Pitchers[p].SGCalc = req[r].sg_value.pitching[p]
            /\ \A h \in HitterIds :
                  Hitters[h].HittingTeamId = NULL /\ Hitters[h].Status = "FA"
            /\ \A p \in PitcherIds :
                  Pitchers[p].PitchingTeamId = NULL /\ Pitchers[p].Status = "FA"
            /\ \A h \in HitterIds :
                  LET once == update_player_sg(Hitters, {h}, req[r].sg_value.hitting)
                  IN  update_player_sg(once, {h}, req[r].sg_value.hitting) = once
            /\ \A p \in PitcherIds :
                  LET once == update_player_sg(Pitchers, {p}, req[r].sg_value.pitching)
                  IN  update_player_sg(once, {p}, req[r].sg_value.pitching) = once

\* A run failed after it had scored some hitters and before it scored the
\* rest, and the rows it wrote hold scores.
C14_WitnessFailedMidway ==
    \E r \in Requests :
        /\ req[r].pc = "failed"
        /\ req[r].hitters # {}
        /\ \E h \in HitterIds : writer.hitting[h] = r /\ Hitters[h].SGCalc # NullReal

\* The last call of fn has returned.
ReturnedFrom(fn) == call.fn = fn /\ call.state = "returned"

HigherIsBetter == {"R", "HR", "RBI", "SB", "W", "K", "SVH", "AVG"}
LowerIsBetter == {"ERA", "WHIP"}
GapFloor(stat) == IF stat = "AVG" THEN <<1, 1000>> ELSE <<1, 10>>

\* The gap of every category is the larger of the distance to the threshold
\* (threshold - current, or current - threshold for ERA and WHIP) and the
\* floor of the category, so no gap is below its floor.
GapsAreClampedDistances ==
    /\ DOMAIN call.result = HigherIsBetter \cup LowerIsBetter
    /\ \A stat \in HigherIsBetter :
          LET gap == RSub(call.thresholds[stat], call.team_stats[stat])
          IN  call.result[stat] = IF RLe(GapFloor(stat), gap) THEN gap ELSE GapFloor(stat)
    /\ \A stat \in LowerIsBetter :
          LET gap == RSub(call.team_stats[stat], call.thresholds[stat])
          IN  call.result[stat] = IF RLe(GapFloor(stat), gap) THEN gap ELSE GapFloor(stat)
    /\ \A stat \in DOMAIN call.result : RLe(GapFloor(stat), call.result[stat])

\* C15 as stated: for every pair of team totals and thresholds, the gap of a
\* higher-is-better category is max(threshold - current, floor), the gap of
\* ERA and of WHIP is max(current - threshold, floor), every gap is at least
\* its floor, and every higher-is-better category (batting average included)
\* whose current value meets or exceeds the threshold has the gap 0.1.
C15_MetCategoryGetsTenth ==
    ReturnedFrom("calculate_category_gaps") =>
        /\ GapsAreClampedDistances
        /\ \A stat \in HigherIsBetter :
              RLe(call.thresholds[stat], call.team_stats[stat]) => call.result[stat] = <<1, 10>>

\* C15 amended: as above, but a higher-is-better category whose current value
\* meets or exceeds the threshold has the gap of its own floor: 0.1 for the
\* counting categories, 0.001 for batting average.
C15_GapsFloored ==
    ReturnedFrom("calculate_category_gaps") =>
        /\ GapsAreClampedDistances
        /\ \A stat \in HigherIsBetter :
              RLe(call.thresholds[stat], call.team_stats[stat]) =>
                  /\ call.result[stat] = GapFloor(stat)
                  /\ stat # "AVG" => call.result[stat] = <<1, 10>>
                  /\ stat = "AVG" => call.result[stat] = <<1, 1000>>

\* Gaps were returned for totals that exceed one threshold, equal another,
\* fall short of a third and have an ERA below its threshold.
C15_WitnessMetAndUnmet ==
    /\ ReturnedFrom("calculate_category_gaps")
    /\ RLt(call.thresholds.R, call.team_stats.R)
    /\ call.thresholds.W = call.team_stats.W
    /\ RLt(call.team_stats.K, call.thresholds.K)
    /\ RLt(call.team_stats.ERA, call.thresholds.ERA)
    /\ RLe(call.thresholds.AVG, call.team_stats.AVG)
    /\ call.result.R = <<1, 10>>

\* Total of an integer column over the first n rows of a list, NULL as 0.
RECURSIVE Total(_, _, _)
Total(rows, column, n) ==
    IF n = 0 THEN 0
    ELSE (IF rows[n][column] = None THEN 0 ELSE rows[n][column]) + Total(rows, column, n - 1)

\* C16: for every roster the team batting average is total hits over total
\* at-bats of the rostered hitters, a NULL counted as 0, and it is 0 when the
\* total of the at-bats is zero.
C16_AvgIsHitsOverAtBats ==
    ReturnedFrom("get_current_team_stats") =>
        LET total_ab == Total(call.hitters, "AB", Len(call.hitters))
            total_hits == Total(call.hitters, "H", Len(call.hitters))
        IN  IF total_ab = 0 THEN call.result.AVG = <<0, 1>>
            ELSE /\ call.result.AVG[2] > 0
                 /\ call.result.AVG[1] * total_ab = total_hits * call.result.AVG[2]

\* The average was returned for two hitters with different at-bats, and it
\* is not the mean of their two averages.
C16_WitnessNotTheMean ==
    /\ ReturnedFrom("get_current_team_stats")
    /\ Len(call.hitters) = 2
    /\ \A i \in 1..2 : call.hitters[i].AB # None /\ call.hitters[i].AB > 0
    /\ call.hitters[1].AB # call.hitters[2].AB
    /\ call.result.AVG # TeamAVGSimpleMean(call.hitters)

\* Total of rate * IP over the first n rows of a list of pitchers, NULL as 0.
RECURSIVE WeightedTotal(_, _, _)
WeightedTotal(rows, column, n) ==
    IF n = 0 THEN <<0, 1>>
    ELSE RAdd(IF rows[n][column] = NullReal \/ rows[n].IP = None THEN <<0, 1>>
              ELSE RMul(rows[n][column], <<rows[n].IP, 1>>),
              WeightedTotal(rows, column, n - 1))

\* C17: for every roster the team ERA is 9 * sum(ERA * IP / 9) / sum(IP) and
\* the team WHIP is sum(WHIP * IP) / sum(IP), both 0 when the innings total
\* zero; pitchers (ERA 3, IP 100) and (ERA 5, IP 50) give the ERA 550/150.
C17_RatesAreInningsWeighted ==
    ReturnedFrom("get_current_team_stats") =>
        LET n == Len(call.pitchers)
            total_ip == Total(call.pitchers, "IP", n)
        IN  /\ IF total_ip = 0
               THEN call.result.ERA = <<0, 1>> /\ call.result.WHIP = <<0, 1>>
               ELSE /\ RMul(call.result.ERA, <<total_ip, 1>>) = WeightedTotal(call.pitchers, "ERA", n)
                    /\ RMul(call.result.WHIP, <<total_ip, 1>>) = WeightedTotal(call.pitchers, "WHIP", n)
            /\ (/\ n = 2
                /\ call.pitchers[1].ERA = <<3, 1>> /\ call.pitchers[1].IP = 100
                /\ call.pitchers[2].ERA = <<5, 1>> /\ call.pitchers[2].IP = 50)
               => call.result.ERA = <<11, 3>>

\* The rates were returned for the pitchers (ERA 3, IP 100) and (ERA 5, IP 50)
\* with a WHIP each: the ERA is 11/3, not 4.
C17_WitnessExample ==
    /\ ReturnedFrom("get_current_team_stats")
    /\ Len(call.pitchers) = 2
    /\ call.pitchers[1].ERA = <<3, 1>> /\ call.pitchers[1].IP = 100
    /\ call.pitchers[2].ERA = <<5, 1>> /\ call.pitchers[2].IP = 50
    /\ call.pitchers[1].WHIP # NullReal
    /\ call.result.ERA = <<11, 3>>
    /\ call.result.ERA # TeamERASimpleMean(call.pitchers)

\* value / gap with a NULL value as 0.
ValueOverGap(value, gap) ==
    IF value = None THEN <<0, 1>> ELSE RDiv(<<value, 1>>, gap)

\* The gaps and the candidate of the worked example.
ExampleCall ==
    /\ call.fn = "calculate_sg_value" /\ call.is_hitter
    /\ call.gaps.R = <<150, 1>> /\ call.gaps.HR = <<50, 1>>
    /\ call.gaps.RBI = <<120, 1>> /\ call.gaps.SB = <<20, 1>>
    /\ call.player.R = 80 /\ call.player.HR = 25
    /\ call.player.RBI = 70 /\ call.player.SB = 5
    /\ call.player.Position = <<"OF">>
    /\ call.player.AB \in {None, 0}

\* C18: for every candidate and gap set the counting part of the standard
\* gain is the sum, over the candidate's counting categories, of value / gap
\* with a NULL value adding nothing: the score is that sum plus the rate terms,
\* times the multiplier; the example candidate scores 80/150 + 25/50 + 70/120
\* + 5/20.
C18_CountingPartIsValueOverGap ==
    ReturnedFrom("calculate_sg_value") =>
        LET p == call.player
            g == call.gaps
        IN  /\ call.is_hitter =>
                  call.result =
                      RMul(RAdd(RAdd(RAdd(ValueOverGap(p.R, g.R), ValueOverGap(p.HR, g.HR)),
                                     RAdd(ValueOverGap(p.RBI, g.RBI), ValueOverGap(p.SB, g.SB))),
                                HitterRate(p, call.team_stats, g)),
                           position_multipliers(p.Position))
            /\ ~call.is_hitter =>
                  call.result =
                      RAdd(RAdd(RAdd(ValueOverGap(p.W, g.W), ValueOverGap(p.SO, g.K)),
                                ValueOverGap(p.SVH, g.SVH)),
                           PitcherRate(p, call.team_stats, g))
            /\ ExampleCall => call.result = <<28, 15>>

\* The example candidate has been scored.
C18_WitnessExample ==
    /\ ReturnedFrom("calculate_sg_value")
    /\ ExampleCall
    /\ call.result = <<28, 15>>

\* The score of a row under the team totals and gaps of the call.
ScoreOf(player) ==
    IF call.is_hitter THEN HitterRowSG(player, call.team_stats, call.gaps)
    ELSE PitcherRowSG(player, call.team_stats, call.gaps)

\* The row with one more in an integer column (a NULL becomes 1).
OneMore(player, column) ==
    [player EXCEPT ![column] = IF @ = None THEN 1 ELSE @ + 1]

\* The row with a rate column half a point higher (a NULL becomes 1/2).
HalfMore(player, column) ==
    [player EXCEPT ![column] = IF @ = NullReal THEN <<1, 2>> ELSE RAdd(@, <<1, 2>>)]

\* Raising a counting value, or the hits of a hitter with at-bats, raises
\* the score.
CountingAndHitsRaise ==
    /\ call.is_hitter =>
          /\ \A stat \in {"R", "HR", "RBI", "SB"} :
                RLt(<<0, 1>>, call.gaps[stat]) =>
                    RLt(call.result, ScoreOf(OneMore(call.player, stat)))
          /\ (RLt(<<0, 1>>, call.gaps.AVG) /\ call.player.AB # None /\ call.player.AB > 0) =>
                RLt(call.result, ScoreOf(OneMore(call.player, "H")))
    /\ ~call.is_hitter =>
          /\ RLt(<<0, 1>>, call.gaps.W) => RLt(call.result, ScoreOf(OneMore(call.player, "W")))
          /\ RLt(<<0, 1>>, call.gaps.K) => RLt(call.result, ScoreOf(OneMore(call.player, "SO")))
          /\ RLt(<<0, 1>>, call.gaps.SVH) => RLt(call.result, ScoreOf(OneMore(call.player, "SVH")))

\* The candidate is a pitcher with innings.
HasInnings == ~call.is_hitter /\ call.player.IP # None /\ call.player.IP > 0

\* C19 as stated: with the team totals, the gaps and the other fields of the
\* candidate fixed, raising the candidate's value in any category with a
\* positive gap (ERA and WHIP included) strictly raises the score.
C19_AnyCategoryRaises ==
    ReturnedFrom("calculate_sg_value") =>
        /\ CountingAndHitsRaise
        /\ HasInnings =>
              \A stat \in {"ERA", "WHIP"} :
                  RLt(<<0, 1>>, call.gaps[stat]) =>
                      RLt(call.result, ScoreOf(HalfMore(call.player, stat)))

\* C19 amended: raising a counting value, or the hits of a hitter with
\* at-bats, strictly raises the score; raising the ERA or the WHIP of a
\* pitcher with innings strictly lowers it.
C19_Monotone ==
    ReturnedFrom("calculate_sg_value") =>
        /\ CountingAndHitsRaise
        /\ HasInnings =>
              \A stat \in {"ERA", "WHIP"} :
                  RLt(<<0, 1>>, call.gaps[stat]) =>
                      RLt(ScoreOf(HalfMore(call.player, stat)), call.result)

\* A pitcher with innings and an ERA has been scored, and the same pitcher
\* with a higher ERA scores less.
C19_WitnessHigherEraScoresLess ==
    /\ ReturnedFrom("calculate_sg_value")
    /\ HasInnings
    /\ call.player.ERA # NullReal
    /\ RLt(ScoreOf(HalfMore(call.player, "ERA")), call.result)

\* C20: the rate terms of the score.  A hitter with at-bats adds
\* ((hits / at-bats - team AVG) * at-bats) / gap_AVG; a pitcher with innings
\* adds ((team ERA - ERA) * IP) / gap_ERA and ((team WHIP - WHIP) * IP) /
\* gap_WHIP; with zero or NULL at-bats or innings the category adds nothing,
\* and the score is a number.
C20_RateTerms ==
    ReturnedFrom("calculate_sg_value") =>
        LET p == call.player
            g == call.gaps
            t == call.team_stats
            hits == IF p.H = None THEN 0 ELSE p.H
            avg_term ==
                IF p.AB = None \/ p.AB = 0 THEN <<0, 1>>
                ELSE RDiv(RMul(RSub(RDiv(<<hits, 1>>, <<p.AB, 1>>), t.AVG), <<p.AB, 1>>), g.AVG)
            rate_term(stat) ==
                IF p.IP = None \/ p.IP = 0 THEN <<0, 1>>
                ELSE RDiv(RMul(RSub(t[stat], IF p[stat] = NullReal THEN <<0, 1>> ELSE p[stat]),
                               <<p.IP, 1>>), g[stat])
        IN  /\ call.result[2] > 0
            /\ call.is_hitter =>
                  call.result = RMul(RAdd(HitterCounting(p, g), avg_term),
                                     position_multipliers(p.Position))
            /\ ~call.is_hitter =>
                  call.result = RAdd(PitcherCounting(p, g),
                                     RAdd(rate_term("ERA"), rate_term("WHIP")))

\* A hitter with NULL at-bats has been scored for a team with a batting
\* average, and the score is the counting part times the multiplier.
C20_WitnessNoAtBats ==
    /\ ReturnedFrom("calculate_sg_value")
    /\ call.is_hitter
    /\ call.player.AB = None
    /\ call.team_stats.AVG # <<0, 1>>
    /\ call.result = RMul(HitterCounting(call.player, call.gaps),
                           position_multipliers(call.player.Position))

\* The fixed scarcity table, by one position or role.
ScarcityTable(token) ==
    CASE token = "C" -> <<6, 5>>
      [] token = "SS" -> <<23, 20>>
      [] token = "2B" -> <<11, 10>>
      [] token = "3B" -> <<21, 20>>
      [] token = "RP" -> <<11, 10>>
      [] OTHER -> <<1, 1>>

\* The score of the call's candidate before the multiplier.
RawScore ==
    IF call.is_hitter
    THEN RAdd(HitterCounting(call.player, call.gaps),
              HitterRate(call.player, call.team_stats, call.gaps))
    ELSE RAdd(PitcherCounting(call.player, call.gaps),
              PitcherRate(call.player, call.team_stats, call.gaps))

\* C21: the standard gain of every candidate is its raw score times the
\* scarcity multiplier of the candidate's primary position or role (the first
\* position listed), 1.0 for an unlisted one: a relief pitcher is weighted
\* 1.1 and a hitter listed SS,2B is weighted as a shortstop.
C21_PrimaryPositionWeighted ==
    ReturnedFrom("calculate_sg_value") =>
        call.result = RMul(RawScore, ScarcityTable(call.player.Position[1]))

\* A relief pitcher with a non-zero raw score has been scored, and the score
\* is the raw score itself.
C21_ReliefPitcherUnweighted ==
    /\ ReturnedFrom("calculate_sg_value")
    /\ ~call.is_hitter
    /\ call.player.Position = <<"RP">>
    /\ RawScore # <<0, 1>>
    /\ call.result = RawScore

\* A hitter listed SS,2B with a non-zero raw score has been scored, and the
\* score is the raw score itself.
C21_MultiPositionUnweighted ==
    /\ ReturnedFrom("calculate_sg_value")
    /\ call.is_hitter
    /\ call.player.Position = <<"SS", "2B">>
    /\ RawScore # <<0, 1>>
    /\ call.result = RawScore

\* C22: the optimized stats returned with a lineup are the aggregate stats
\* of the team's rostered players together with the players the lineup
\* assigns, for hitting when the scope covers hitting and for pitching when
\* it covers pitching.
C22_OptimizedStatsAreAggregates ==
    Solved =>
        LET team_id == lp.team_id
            expected == AggregateStats(
                            HittersOf(team_id) \cup AssignedIds(response.optimal_lineup, "hitting"),
                            PitchersOf(team_id) \cup AssignedIds(response.optimal_lineup, "pitching"))
        IN  /\ lp.lineup_type \in {"hitting", "both"} =>
                  response.optimized_stats.optimized_hitting_stats = HittingStats(expected)
            /\ lp.lineup_type \in {"pitching", "both"} =>
                  response.optimized_stats.optimized_pitching_stats = PitchingStats(expected)

\* A lineup of scope 'both' assigned hitters only, for a team that has a
\* pitcher with wins, and the optimized pitching stats are all zero.
C22_RosteredPitcherDropped ==
    /\ Solved
    /\ lp.lineup_type = "both"
    /\ AssignedIds(response.optimal_lineup, "hitting") # {}
    /\ \E p \in PitchersOf(lp.team_id) : PitcherRows[p].W > 0
    /\ response.optimized_stats.optimized_pitching_stats.W = <<0, 1>>

\* The bench slots among a set of slots.
BenchSlots(positions) == {position \in positions : position \in {"Bench1", "Bench2", "Bench3"}}

\* A quota as a number of slots: a negative remainder allows none.
AtMost(quota) == IF quota < 0 THEN 0 ELSE quota

\* The slot of the team is unfilled: no row, or an empty column.
Unfilled(rosters, table, team_id, position) ==
    team_id \notin rosters \/ table[team_id][position] = 0

C24_AssignmentStored ==
    Solved =>
        \A v \in response.optimal_lineup :
            IF v[1] = "hitting"
            THEN lp.team_id \in hitterRosters /\ TeamHitters[lp.team_id][v[3]] = v[2]
            ELSE lp.team_id \in pitcherRosters /\ TeamPitchers[lp.team_id][v[3]] = v[2]

\* A lineup was returned for three open hitter slots, and the team still has
\* no hitter row and no hitter of its own.
C24_LineupNotStored ==
    /\ Solved
    /\ Cardinality(AssignedIds(response.optimal_lineup, "hitting")) = 3
    /\ lp.team_id \notin hitterRosters
    /\ HittersOf(lp.team_id) = {}

C26_PitcherCategoriesCount ==
    /\ (ReturnedFrom("calculate_sg_value") /\ ~call.is_hitter) =>
          /\ RSub(ScoreOf(OneMore(call.player, "W")), ScoreOf([call.player EXCEPT !.W = IF @ = None THEN 0 ELSE @]))
                = RDiv(<<1, 1>>, call.gaps.W)
          /\ RSub(ScoreOf(OneMore(call.player, "SO")), ScoreOf([call.player EXCEPT !.SO = IF @ = None THEN 0 ELSE @]))
                = RDiv(<<1, 1>>, call.gaps.K)
          /\ RSub(ScoreOf(OneMore(call.player, "SVH")), ScoreOf([call.player EXCEPT !.SVH = IF @ = None THEN 0 ELSE @]))
                = RDiv(<<1, 1>>, call.gaps.SVH)
          /\ call.player.SO # None =>
                RSub(call.result, ScoreOf([call.player EXCEPT !.SO = 0]))
                    = RDiv(<<call.player.SO, 1>>, call.gaps.K)
    /\ ReturnedFrom("get_current_team_stats") =>
          /\ call.result.K = <<Total(call.pitchers, "SO", Len(call.pitchers)), 1>>
          /\ call.result.W = <<Total(call.pitchers, "W", Len(call.pitchers)), 1>>
          /\ call.result.SVH = <<Total(call.pitchers, "SVH", Len(call.pitchers)), 1>>

\* A pitcher with 10 strikeouts has been scored, and the strikeouts are
\* worth 10 / gap_K of the score.
C26_WitnessStrikeoutsCounted ==
    /\ ReturnedFrom("calculate_sg_value")
    /\ ~call.is_hitter
    /\ call.player.SO = 10
    /\ RSub(call.result, ScoreOf([call.player EXCEPT !.SO = 0])) = RDiv(<<10, 1>>, call.gaps.K)
    /\ call.result # ScoreOf([call.player EXCEPT !.SO = 0])

\* The players in the slots of a team's roster row.
SlotHitters(t) ==
    IF t \in hitterRosters THEN {TeamHitters[t][position] : position \in HITTER_POSITIONS} \ {0}
    ELSE {}
SlotPitchers(t) ==
    IF t \in pitcherRosters THEN {TeamPitchers[t][position] : position \in PITCHER_POSITIONS} \ {0}
    ELSE {}

\* C27: after any roster-update and set-free-agent requests a player's team
\* reference is T exactly when the player is in a slot of team T, so the
\* players counted in T's aggregate stats are the players in T's slots.
C27_ReferenceMatchesSlots ==
    \A t \in Teams :
        /\ HittersOf(t) = SlotHitters(t)
        /\ PitchersOf(t) = SlotPitchers(t)

\* A hitter displaced from a slot by another hitter still refers to the
\* team, and the team's aggregate runs count both.
C27_DisplacedStillCounted ==
    \E t \in Teams, h \in HitterIds, g \in HitterIds :
        /\ SlotHitters(t) = {g}
        /\ HittersOf(t) = {h, g}
        /\ h # g
        /\ get_current_team_stats(t).R = <<HitterRows[h].R + HitterRows[g].R, 1>>

\* A hitter set as free agent has no team reference and is still in the
\* team's slot.
C27_FreeAgentStillInSlot ==
    \E t \in Teams, h \in HitterIds :
        /\ h \in SlotHitters(t)
        /\ Hitters[h].HittingTeamId = 0
        /\ response.route = "free-agent"

\* C28: for every roster the team-stats endpoints report the counting totals
\* of the Aggregate Stat Calculator and its AVG, ERA and WHIP rounded as the
\* endpoints round (3, 2 and 3 decimals).
C28_EndpointsAgreeWithCalculator ==
    ReturnedFrom("get_team_all_stats") =>
        LET team_stats == TeamStatsOfRows(call.hitters, call.pitchers)
            hitting == call.result.hitting_stats
            pitching == call.result.pitching_stats
        IN  /\ hitting.R = team_stats.R /\ hitting.HR = team_stats.HR
            /\ hitting.RBI = team_stats.RBI /\ hitting.SB = team_stats.SB
            /\ pitching.W = team_stats.W /\ pitching.K = team_stats.K
            /\ pitching.SVH = team_stats.SVH
            /\ hitting.AVG = RoundTo(team_stats.AVG, 1000)
            /\ pitching.ERA = RoundTo(team_stats.ERA, 100)
            /\ pitching.WHIP = RoundTo(team_stats.WHIP, 1000)

\* The endpoint reported ERA 4.00 for the pitchers (ERA 3, IP 100) and
\* (ERA 5, IP 50), whose aggregate ERA is 11/3.
C28_EndpointReportsMean ==
    /\ ReturnedFrom("get_team_all_stats")
    /\ Len(call.pitchers) = 2
    /\ call.pitchers[1].ERA = <<3, 1>> /\ call.pitchers[1].IP = 100
    /\ call.pitchers[2].ERA = <<5, 1>> /\ call.pitchers[2].IP = 50
    /\ call.result.pitching_stats.ERA = <<4, 1>>
    /\ TeamERA(call.pitchers) = <<11, 3>>

\* The last response is a ranking from calculate-standard-gains.
Ranked == response.route = "gains" /\ response.code = 200

\* A top list is in non-increasing score order.
NonIncreasing(top) ==
    \A i \in 1..Len(top), j \in 1..Len(top) : i < j => RLe(top[j].SGCalc, top[i].SGCalc)

\* C29: each top list of calculate-standard-gains for team T has at most N
\* rows, in non-increasing score order, every row a player with status FA and
\* a score, and every listed player was scored by this request: a candidate of
\* team T (not a player of team T) listed with the score computed for T.
C29_TopListsAreFresh ==
    Ranked =>
        LET t == response.team_id
            fresh == Scores(t, response.model_id)
        IN  /\ Len(response.top_hitters) <= TopLimit /\ Len(response.top_pitchers) <= TopLimit
            /\ NonIncreasing(response.top_hitters) /\ NonIncreasing(response.top_pitchers)
            /\ \A i \in 1..Len(response.top_hitters) :
                  LET row == response.top_hitters[i] IN
                  /\ Hitters[row.id].Status = "FA" /\ row.SGCalc # NullReal
                  /\ row.id \in get_available_hitters(t) /\ row.id \notin HittersOf(t)
                  /\ row.SGCalc = fresh.hitting[row.id]
            /\ \A i \in 1..Len(response.top_pitchers) :
                  LET row == response.top_pitchers[i] IN
                  /\ Pitchers[row.id].Status = "FA" /\ row.SGCalc # NullReal
                  /\ row.id \in get_available_pitchers(t) /\ row.id \notin PitchersOf(t)
                  /\ row.SGCalc = fresh.pitching[row.id]

\* The ranking for team 1 lists team 1's own pitchers, with the scores an
\* earlier run for another team left.
C29_OwnPlayersListed ==
    /\ Ranked
    /\ Len(response.top_pitchers) = 2
    /\ \A i \in 1..2 : response.top_pitchers[i].id \in PitchersOf(response.team_id)

\* The slot -> player mappings and the players' team references.
RosterTables == <<TeamHitters, TeamPitchers, hitterRosters, pitcherRosters,
                  [h \in HitterIds |-> Hitters[h].HittingTeamId],
                  [p \in PitcherIds |-> Pitchers[p].PitchingTeamId]>>

\* C30: a roster-update request that is rejected (missing field, invalid
\* player_type, slot not valid for the type, no such team, no such player, or
\* a hitter not eligible for the slot) leaves every team's slot -> player
\* mapping and every player's team reference as they were.
C30_RejectedUpdateWritesNothing ==
    [][(response'.route = "roster" /\ ops' = ops + 1 /\ response'.code # 200)
         => UNCHANGED RosterTables]_vars

\* A roster update was refused with 400 while a team holds a hitter in a slot.
C30_WitnessRejectedOnRoster ==
    /\ response.route = "roster" /\ response.code = 400
    /\ ops = 2
    /\ \E t \in Teams, p \in HITTER_POSITIONS :
          TeamHitters[t][p] # NULL /\ Hitters[TeamHitters[t][p]].HittingTeamId = t

====
